---------------------------- MODULE Spec2Model ----------------------------
(***************************************************************************)
(* PSCbot: the WhatsApp webhook's dialogue router, its conversation state  *)
(* manager (utils/state-manager), its per-user rate limiter and the vessel *)
(* directory (utils/vessel-lookup).                                        *)
(*                                                                         *)
(* Strings are sequences of one-character strings, so that trimming, case  *)
(* folding, digit stripping and substring search are computed as the code  *)
(* computes them.  Times are milliseconds, as Date.now() gives them.       *)
(***************************************************************************)
EXTENDS Integers, Sequences, FiniteSets, TLC

VARIABLES
  now,             \* Date.now()
  stateStore,      \* state-manager: Map<normalized phone, state>
  rateLimitStore,  \* whatsapp-webhook: Map<raw phone, {count, resetAt}>
  reqs,            \* the invocations of exports.handler that are awaiting
  started,         \* number of invocations (or library calls) started so far
  last,            \* the record of the invocation (or call) that returned last
  hist,            \* history: what the callers of a library have done so far
  vesselCache      \* vessel-lookup: the vessel mappings the process has loaded

vars == <<now, stateStore, rateLimitStore, reqs, started, last, hist, vesselCache>>

-----------------------------------------------------------------------------
(* Program constants *)

STATE_EXPIRY_MS == 300000

CLEANUP_INTERVAL_MS == 60000

RATE_LIMIT_WINDOW_MS == 60 * 60 * 1000

RATE_LIMIT_MAX_REQUESTS == 50

WEBHOOK_STATE_EXPIRY_MS == 10 * 60 * 1000

SUPPORTED_INTENTS == {"risk_score", "risk_level", "recommendations", "vessel_info"}

DEFAULT_VESSELS ==
  << [name |-> <<"G","C","L"," ","Y","A","M","U","N","A">>,
      imo  |-> <<"9","4","8","1","2","1","9">>],
     [name |-> <<"G","C","L"," ","T","A","P","I">>,
      imo  |-> <<"9","4","8","1","6","5","9">>],
     [name |-> <<"G","C","L"," ","G","A","N","G","A">>,
      imo  |-> <<"9","4","8","1","6","9","7">>],
     [name |-> <<"G","C","L"," ","S","A","B","A","R","M","A","T","I">>,
      imo  |-> <<"9","4","8","1","6","6","1">>] >>

-----------------------------------------------------------------------------
(* Bounds of the model *)

MaxTicks == 4          \* the clock advances at most this many times

MaxRequests == 2       \* invocations of the handler per behaviour

MaxInFlight == 2       \* invocations that may be awaiting at the same time

MaxOps == 4            \* calls made to a library that is driven directly

MaxExtraChecks == 2    \* checks of one sender beyond RATE_LIMIT_MAX_REQUESTS

MaxRateTicks == 3      \* the clock of the rate limiter advances at most this many times

\* One step of the clock: half the state manager's expiry, so that the model
\* sees times before, at and after both expiry limits (5 and 10 minutes).
TickMs == STATE_EXPIRY_MS \div 2

\* The process has been up for one rate-limit window when the model starts
\* (Date.now() is never 0).
StartTime == RATE_LIMIT_WINDOW_MS

-----------------------------------------------------------------------------
(* JavaScript values *)

Null == [null |-> TRUE]

Digits == {"0","1","2","3","4","5","6","7","8","9"}

Whitespace == {" ", "\t", "\n"}

UpperLetters == <<"A","B","C","D","E","F","G","H","I","J","K","L","M",
                  "N","O","P","Q","R","S","T","U","V","W","X","Y","Z">>

LowerLetters == <<"a","b","c","d","e","f","g","h","i","j","k","l","m",
                  "n","o","p","q","r","s","t","u","v","w","x","y","z">>

IndexIn(c, letters) ==
  IF \E i \in 1..Len(letters) : letters[i] = c
    THEN CHOOSE i \in 1..Len(letters) : letters[i] = c
    ELSE 0

LowerOf(c) ==
  IF IndexIn(c, UpperLetters) > 0 THEN LowerLetters[IndexIn(c, UpperLetters)] ELSE c

UpperOf(c) ==
  IF IndexIn(c, LowerLetters) > 0 THEN UpperLetters[IndexIn(c, LowerLetters)] ELSE c

\* String.prototype.toLowerCase
RECURSIVE ToLowerCase(_)
ToLowerCase(s) ==
  IF s = <<>> THEN <<>> ELSE <<LowerOf(Head(s))>> \o ToLowerCase(Tail(s))

\* String.prototype.toUpperCase
RECURSIVE ToUpperCase(_)
ToUpperCase(s) ==
  IF s = <<>> THEN <<>> ELSE <<UpperOf(Head(s))>> \o ToUpperCase(Tail(s))

\* String.prototype.trim
Trim(s) ==
  LET inked == {i \in 1..Len(s) : s[i] \notin Whitespace}
  IN IF inked = {} THEN <<>>
     ELSE LET lo == CHOOSE i \in inked : \A j \in inked : i <= j
              hi == CHOOSE i \in inked : \A j \in inked : i >= j
          IN SubSeq(s, lo, hi)

\* String.prototype.includes
Includes(s, sub) ==
  \E i \in 1..(Len(s) - Len(sub) + 1) : SubSeq(s, i, i + Len(sub) - 1) = sub

\* /^\d+$/.test(s)
AllDigits(s) == Len(s) > 0 /\ \A i \in 1..Len(s) : s[i] \in Digits

Max(a, b) == IF a >= b THEN a ELSE b

Min(a, b) == IF a <= b THEN a ELSE b

\* state.f of a state object that may lack the field
Field(obj, f) == IF f \in DOMAIN obj THEN obj[f] ELSE Null

-----------------------------------------------------------------------------
(* utils/state-manager *)

NormalizeStripsPlusAndSpace(phoneNumber) ==
  SelectSeq(phoneNumber, LAMBDA c : c \notin {"+", " "})

normalizePhoneNumber(phoneNumber) ==
  SelectSeq(phoneNumber, LAMBDA c : c \in Digits)

\* Map.get, with Null for undefined
Entry(store, key) == IF key \in DOMAIN store THEN store[key] ELSE Null

\* Map.delete
Delete(store, key) == [k \in (DOMAIN store) \ {key} |-> store[k]]

\* Map.set
Put(store, key, value) ==
  [k \in (DOMAIN store) \cup {key} |-> IF k = key THEN value ELSE store[k]]

SaveStateMerging(store, phoneNumber, stateData, t) ==
  LET normalizedPhone == normalizePhoneNumber(phoneNumber)
      old == IF normalizedPhone \in DOMAIN store THEN store[normalizedPhone]
             ELSE [timestamp |-> t]
  IN IF phoneNumber = <<>> \/ normalizedPhone = <<>>
       THEN [store |-> store, result |-> FALSE]
       ELSE LET state == [f \in (DOMAIN old) \cup (DOMAIN stateData)
                                \cup {"timestamp", "expiresAt"} |->
                            CASE f = "timestamp" -> t
                              [] f = "expiresAt" -> t + STATE_EXPIRY_MS
                              [] f \in DOMAIN stateData -> stateData[f]
                              [] OTHER -> old[f]]
            IN [store |-> Put(store, normalizedPhone, state), result |-> TRUE]

\* saveState(phoneNumber, stateData) at time t: the store afterwards and the
\* value returned
saveState(store, phoneNumber, stateData, t) ==
  LET normalizedPhone == normalizePhoneNumber(phoneNumber)
  IN IF phoneNumber = <<>> \/ normalizedPhone = <<>>
       THEN [store |-> store, result |-> FALSE]
       ELSE LET state == [f \in (DOMAIN stateData) \cup {"timestamp", "expiresAt"} |->
                            CASE f = "timestamp" -> t
                              [] f = "expiresAt" -> t + STATE_EXPIRY_MS
                              [] OTHER -> stateData[f]]
            IN [store |-> Put(store, normalizedPhone, state), result |-> TRUE]

GetStateRefreshing(store, phoneNumber, t) ==
  LET normalizedPhone == normalizePhoneNumber(phoneNumber)
      state == Entry(store, normalizedPhone)
      fresh == [state EXCEPT !.expiresAt = t + STATE_EXPIRY_MS]
  IN IF phoneNumber = <<>> \/ normalizedPhone = <<>> \/ state = Null
       THEN [store |-> store, result |-> Null]
       ELSE IF t > state.expiresAt
              THEN [store |-> Delete(store, normalizedPhone), result |-> Null]
              ELSE [store |-> Put(store, normalizedPhone, fresh), result |-> fresh]

GetStateConsuming(store, phoneNumber, t) ==
  LET normalizedPhone == normalizePhoneNumber(phoneNumber)
      state == Entry(store, normalizedPhone)
  IN IF phoneNumber = <<>> \/ normalizedPhone = <<>> \/ state = Null
       THEN [store |-> store, result |-> Null]
       ELSE [store |-> Delete(store, normalizedPhone),
             result |-> IF t > state.expiresAt THEN Null ELSE state]

GetStateNoExpiry(store, phoneNumber, t) ==
  [store |-> store, result |-> Entry(store, normalizePhoneNumber(phoneNumber))]

\* getState(phoneNumber) at time t: the store afterwards and the value returned
getState(store, phoneNumber, t) ==
  LET normalizedPhone == normalizePhoneNumber(phoneNumber)
      state == Entry(store, normalizedPhone)
  IN IF phoneNumber = <<>> \/ normalizedPhone = <<>> \/ state = Null
       THEN [store |-> store, result |-> Null]
       ELSE IF t > state.expiresAt
              THEN [store |-> Delete(store, normalizedPhone), result |-> Null]
              ELSE [store |-> store, result |-> state]

ClearStateRawKey(store, phoneNumber) ==
  IF phoneNumber = <<>> \/ normalizePhoneNumber(phoneNumber) = <<>>
    THEN [store |-> store, result |-> FALSE]
    ELSE [store |-> Delete(store, phoneNumber),
          result |-> phoneNumber \in DOMAIN store]

\* clearState(phoneNumber): the store afterwards and the value returned
clearState(store, phoneNumber) ==
  LET normalizedPhone == normalizePhoneNumber(phoneNumber)
  IN IF phoneNumber = <<>> \/ normalizedPhone = <<>>
       THEN [store |-> store, result |-> FALSE]
       ELSE [store |-> Delete(store, normalizedPhone),
             result |-> normalizedPhone \in DOMAIN store]

CleanupByTimestamp(store, t) ==
  LET expiredPhones == {k \in DOMAIN store : t > store[k].timestamp}
  IN [store |-> [k \in (DOMAIN store) \ expiredPhones |-> store[k]],
      result |-> Cardinality(expiredPhones)]

CleanupNothing(store, t) == [store |-> store, result |-> 0]

CleanupAtExpiry(store, t) ==
  LET expiredPhones == {k \in DOMAIN store : t >= store[k].expiresAt}
  IN [store |-> [k \in (DOMAIN store) \ expiredPhones |-> store[k]],
      result |-> Cardinality(expiredPhones)]

\* cleanupExpiredStates() at time t: the store afterwards and the count removed
cleanupExpiredStates(store, t) ==
  LET expiredPhones == {k \in DOMAIN store : t > store[k].expiresAt}
  IN [store |-> [k \in (DOMAIN store) \ expiredPhones |-> store[k]],
      result |-> Cardinality(expiredPhones)]

-----------------------------------------------------------------------------
(* utils/vessel-lookup *)

\* loadVesselMappings(): the mappings are read once and cached; without an
\* override and without a mappings file they are the built-in list
loadVesselMappings == vesselCache

\* One row of the dynamic-programming table of distance(a, b): row i from row
\* i - 1 (prev), for the character c = a[i - 1]; acc holds dp[i][0 .. j - 1].
RECURSIVE BuildRow(_, _, _, _)
BuildRow(prev, c, b, acc) ==
  IF Len(acc) = Len(b) + 1 THEN acc
  ELSE LET j == Len(acc)
           cost == IF c = b[j] THEN 0 ELSE 1
           cell == Min(Min(prev[j + 1] + 1, acc[j] + 1), prev[j] + cost)
       IN BuildRow(prev, c, b, Append(acc, cell))

RECURSIVE DistanceFrom(_, _, _, _)
DistanceFrom(a, b, i, prev) ==
  IF i > Len(a) THEN prev[Len(b) + 1]
  ELSE DistanceFrom(a, b, i + 1, BuildRow(prev, a[i], b, <<prev[1] + 1>>))

\* the Levenshtein distance of getVesselByName
distance(a, b) == DistanceFrom(a, b, 1, [j \in 1..(Len(b) + 1) |-> j - 1])

\* for (const vessel of vessels) if (test) return: the index of the first
\* entry whose test is true, 0 if there is none
FirstIndex(test) ==
  IF \E i \in 1..Len(test) : test[i]
    THEN CHOOSE i \in 1..Len(test) : test[i] /\ \A j \in 1..(i - 1) : ~test[j]
    ELSE 0

NearMissWithinThree(dist) ==
  LET best == FirstIndex([i \in 1..Len(dist) |->
                            \A j \in 1..Len(dist) : dist[i] <= dist[j]])
  IN IF best > 0 /\ dist[best] <= 3 THEN best ELSE 0

\* distance(searchName, name) for the upper-cased names from the i-th on
RECURSIVE Distances(_, _, _)
Distances(searchName, upper, i) ==
  IF i > Len(upper) THEN <<>>
  ELSE <<distance(searchName, upper[i])>> \o Distances(searchName, upper, i + 1)

\* vessel.name.toUpperCase() for the entries from i on
RECURSIVE UpperNames(_, _)
UpperNames(vessels, i) ==
  IF i > Len(vessels) THEN <<>>
  ELSE <<ToUpperCase(vessels[i].name)>> \o UpperNames(vessels, i + 1)

MatchedPartialFirst(vessels, exact, partial, fuzzy) ==
  IF partial > 0 THEN vessels[partial]
  ELSE IF exact > 0 THEN vessels[exact]
  ELSE IF fuzzy > 0 THEN vessels[fuzzy]
  ELSE Null

\* the entry getVesselByName returns: the exact match if there is one, else
\* the partial match, else the near miss (each the index of an entry, or 0)
Matched(vessels, exact, partial, fuzzy) ==
  IF exact > 0 THEN vessels[exact]
  ELSE IF partial > 0 THEN vessels[partial]
  ELSE IF fuzzy > 0 THEN vessels[fuzzy]
  ELSE Null

\* the fuzzy match over the distances dist of the entries: d < bestDist keeps
\* the first entry of minimal distance, accepted if bestDist <= 2
NearMiss(dist) ==
  LET best == FirstIndex([i \in 1..Len(dist) |->
                            \A j \in 1..Len(dist) : dist[i] <= dist[j]])
  IN IF best > 0 /\ dist[best] <= 2 THEN best ELSE 0

PartialIndexNameInQuery(upper, searchName) ==
  FirstIndex([i \in 1..Len(upper) |-> Includes(searchName, upper[i])])

\* the exact match: the first entry whose upper-cased name is searchName
ExactIndex(upper, searchName) ==
  FirstIndex([i \in 1..Len(upper) |-> upper[i] = searchName])

\* the partial match: the first entry whose upper-cased name includes
\* searchName or is included in it
PartialIndex(upper, searchName) ==
  FirstIndex([i \in 1..Len(upper) |->
                \/ Includes(upper[i], searchName)
                \/ Includes(searchName, upper[i])])

\* getVesselByName from the exact match on, for searchName and the upper-cased
\* names of the entries
Search(vessels, upper, searchName) ==
  Matched(vessels, ExactIndex(upper, searchName), PartialIndex(upper, searchName),
          NearMiss(Distances(searchName, upper, 1)))

LookupCaseSensitive(vessels, name, searchName) ==
  IF name = <<>> \/ Trim(name) = <<>> THEN Null
  ELSE Search(vessels, UpperNames(vessels, 1), Trim(name))

\* getVesselByName(name) with the mappings vessels loaded
Lookup(vessels, name, searchName) ==
  IF name = <<>> \/ searchName = <<>> THEN Null
  ELSE Search(vessels, UpperNames(vessels, 1), searchName)

getVesselByName(name) ==
  Lookup(loadVesselMappings, name, ToUpperCase(Trim(name)))

GetVesselByIMOPrefix(imo) ==
  LET vessels == loadVesselMappings
      imoStr == Trim(imo)
      found == FirstIndex([i \in 1..Len(vessels) |->
                             /\ Len(vessels[i].imo) >= Len(imoStr)
                             /\ SubSeq(vessels[i].imo, 1, Len(imoStr)) = imoStr])
  IN IF imo = <<>> \/ imoStr = <<>> THEN Null
     ELSE IF found > 0 THEN vessels[found]
     ELSE Null

getVesselByIMO(imo) ==
  LET vessels == loadVesselMappings
      imoStr == Trim(imo)
      found == FirstIndex([i \in 1..Len(vessels) |-> vessels[i].imo = imoStr])
  IN IF imo = <<>> \/ imoStr = <<>> THEN Null
     ELSE IF found > 0 THEN vessels[found]
     ELSE Null

-----------------------------------------------------------------------------
(* netlify/functions/whatsapp-webhook *)

CheckRateLimitOneMore(rate, phoneNumber, t) ==
  LET stored == IF phoneNumber \in DOMAIN rate THEN rate[phoneNumber]
                ELSE [count |-> 0, resetAt |-> t + RATE_LIMIT_WINDOW_MS]
      userLimit == IF t > stored.resetAt
                     THEN [count |-> 0, resetAt |-> t + RATE_LIMIT_WINDOW_MS]
                     ELSE stored
      remaining == Max(0, RATE_LIMIT_MAX_REQUESTS - userLimit.count)
      allowed == userLimit.count <= RATE_LIMIT_MAX_REQUESTS
      updated == IF allowed THEN [userLimit EXCEPT !.count = @ + 1] ELSE userLimit
  IN [rate |-> Put(rate, phoneNumber, updated),
      allowed |-> allowed, remaining |-> remaining, resetAt |-> userLimit.resetAt]

CheckRateLimitKeepsCount(rate, phoneNumber, t) ==
  LET stored == IF phoneNumber \in DOMAIN rate THEN rate[phoneNumber]
                ELSE [count |-> 0, resetAt |-> t + RATE_LIMIT_WINDOW_MS]
      userLimit == IF t > stored.resetAt
                     THEN [stored EXCEPT !.resetAt = t + RATE_LIMIT_WINDOW_MS]
                     ELSE stored
      remaining == Max(0, RATE_LIMIT_MAX_REQUESTS - userLimit.count)
      allowed == userLimit.count < RATE_LIMIT_MAX_REQUESTS
      updated == IF allowed THEN [userLimit EXCEPT !.count = @ + 1] ELSE userLimit
  IN [rate |-> Put(rate, phoneNumber, updated),
      allowed |-> allowed, remaining |-> remaining, resetAt |-> userLimit.resetAt]

CheckRateLimitCountsDenied(rate, phoneNumber, t) ==
  LET stored == IF phoneNumber \in DOMAIN rate THEN rate[phoneNumber]
                ELSE [count |-> 0, resetAt |-> t + RATE_LIMIT_WINDOW_MS]
      userLimit == IF t > stored.resetAt
                     THEN [count |-> 0, resetAt |-> t + RATE_LIMIT_WINDOW_MS]
                     ELSE stored
      remaining == Max(0, RATE_LIMIT_MAX_REQUESTS - userLimit.count)
      allowed == userLimit.count < RATE_LIMIT_MAX_REQUESTS
      updated == [userLimit EXCEPT !.count = @ + 1]
  IN [rate |-> Put(rate, phoneNumber, updated),
      allowed |-> allowed, remaining |-> remaining, resetAt |-> userLimit.resetAt]

\* checkRateLimit(phoneNumber) at time t: the store afterwards and the result
checkRateLimit(rate, phoneNumber, t) ==
  LET stored == IF phoneNumber \in DOMAIN rate THEN rate[phoneNumber]
                ELSE [count |-> 0, resetAt |-> t + RATE_LIMIT_WINDOW_MS]
      userLimit == IF t > stored.resetAt
                     THEN [count |-> 0, resetAt |-> t + RATE_LIMIT_WINDOW_MS]
                     ELSE stored
      remaining == Max(0, RATE_LIMIT_MAX_REQUESTS - userLimit.count)
      allowed == userLimit.count < RATE_LIMIT_MAX_REQUESTS
      updated == IF allowed THEN [userLimit EXCEPT !.count = @ + 1] ELSE userLimit
  IN [rate |-> Put(rate, phoneNumber, updated),
      allowed |-> allowed, remaining |-> remaining, resetAt |-> userLimit.resetAt]

\* isStateExpired(state) at time t
isStateExpired(state, t) ==
  IF state = Null \/ "timestamp" \notin DOMAIN state \/ state.timestamp = 0
    THEN TRUE
    ELSE t - state.timestamp > WEBHOOK_STATE_EXPIRY_MS

\* getEmailForPhone(phoneNumber): PHONE_TO_EMAIL is empty, so the address is
\* the default recipient of the environment, if one is set
getEmailForPhone(phoneNumber, e) ==
  IF e.defaultEmail THEN <<"o","p","s","@","x">> ELSE <<>>

\* userMessage.toLowerCase().trim(), isDownload and isEmail
ClassifyEmailFirst(userMessage) ==
  LET normalizedMessage == Trim(ToLowerCase(userMessage))
      isDownload == \/ normalizedMessage = <<"1">>
                    \/ Includes(normalizedMessage, <<"d","o","w","n","l","o","a","d">>)
      isEmail == \/ normalizedMessage = <<"2">>
                 \/ Includes(normalizedMessage, <<"e","m","a","i","l">>)
  IN IF isEmail THEN "email" ELSE IF isDownload THEN "download" ELSE "other"

classify(userMessage) ==
  LET normalizedMessage == Trim(ToLowerCase(userMessage))
      isDownload == \/ normalizedMessage = <<"1">>
                    \/ Includes(normalizedMessage, <<"d","o","w","n","l","o","a","d">>)
      isEmail == \/ normalizedMessage = <<"2">>
                 \/ Includes(normalizedMessage, <<"e","m","a","i","l">>)
  IN IF isDownload THEN "download" ELSE IF isEmail THEN "email" ELSE "other"

\* Object.keys(state.vesselData || {}).length === 0
NoVesselData(state) == Field(state, "vesselData") = Null

-----------------------------------------------------------------------------
(* An invocation of exports.handler.  A step of the model runs the code of   *)
(* one invocation from one await to the next; r is [store, req], the session *)
(* store and the invocation's record (pc, locals and tr, what it has done).  *)

Idle == [pc |-> "idle"]

\* the age of a stored state at time t, as the handler logs it (stateAge)
StateAge(state, t) == IF state = Null THEN 0 ELSE t - state.timestamp

NewRequest(store, from, text, t) ==
  [pc |-> "entry", text |-> text, st |-> Null, intent |-> "", vid |-> <<>>,
   imo |-> <<>>, vesselName |-> <<>>, vesselData |-> Null, recs |-> Null,
   tr |-> [from |-> from,
           pre |-> Entry(store, normalizePhoneNumber(from)),
           preAge |-> StateAge(Entry(store, normalizePhoneNumber(from)), t),
           choice |-> IF Entry(store, normalizePhoneNumber(from)) = Null
                        THEN "none" ELSE classify(text),
           rateChecked |-> FALSE, allowed |-> FALSE,
           counted |-> FALSE,
           answer |-> [kind |-> "none", confidence |-> "none"],
           byIMO |-> {}, byName |-> {},
           getCalled |-> FALSE, got |-> Null, afterGet |-> Null,
           route |-> "none", afterEntry |-> Null, storeSame |-> TRUE,
           calls |-> {}, payload |-> Null, failed |-> FALSE, threw |-> FALSE,
           exception |-> FALSE, replies |-> <<>>, post |-> Null]]

\* return xmlResponse(generateTwiMLResponse(message))
Reply(r, message) ==
  [r EXCEPT !.req.pc = "done", !.req.text = <<>>, !.req.tr.replies = Append(@, message)]

\* an exception is thrown out of the code that runs
Throw(r) == [r EXCEPT !.req.pc = "thrown"]

\* await: the invocation waits for a collaborator at pc
Await(r, pc) == [r EXCEPT !.req.pc = pc]

Call(r, name) == [r EXCEPT !.req.tr.calls = @ \cup {name}]

Failed(r) == [r EXCEPT !.req.tr.failed = TRUE]

\* stateManager.clearState(fromNumber)
Clear(r) == [r EXCEPT !.store = clearState(r.store, r.req.tr.from).store]

\* the message of the catch block of each function
CatchReply(fn) ==
  CASE fn = "handler" -> "generic_failure"
    [] fn = "processNewQuery" -> "generic_failure"
    [] fn = "handleExcelRequest" -> "excel_error"
    [] fn = "handleEmailRequest" -> "email_failed"
    [] fn = "handleRiskScoreIntent" -> "risk_score_failure"
    [] fn = "handleRiskLevelIntent" -> "risk_level_failure"
    [] fn = "handleRecommendationsIntent" -> "recommendations_failure"
    [] OTHER -> "generic_failure"

CaughtRethrow(fn, r) == r

\* try { ... } catch (error) { ... } of function fn around the code that gave r;
\* handleExcelRequest's catch block also clears the state
Caught(fn, r) ==
  IF r.req.pc # "thrown" THEN r
  ELSE LET c == IF fn = "handleExcelRequest" THEN Clear(r) ELSE r
       IN Reply([c EXCEPT !.req.tr.threw = TRUE], CatchReply(fn))

Route(r, route) == [r EXCEPT !.req.tr.route = route]

\* processNewQuery up to its first await, the call of the intent detection
processNewQueryEntry(r) ==
  Await(Call(Call(r, "processNewQuery"), "detectIntent"), "intent")

\* the user's message is passed on to the intent detection and is not read again
Sent(r) == [r EXCEPT !.req.text = <<>>]

\* handleExcelRequest up to its first await
handleExcelEntry(r) ==
  LET c == Call([r EXCEPT !.req.tr.payload = r.req.st], "handleExcelRequest")
  IN Caught("handleExcelRequest",
       IF NoVesselData(r.req.st)
         THEN Reply(Clear(c), "no_vessel_data")
         ELSE Await(Call(c, "generateExcelFile"), "excel_gen"))

\* handleEmailRequest up to its first await
handleEmailEntry(r, e) ==
  LET c == Call([r EXCEPT !.req.tr.payload = r.req.st], "handleEmailRequest")
  IN Caught("handleEmailRequest",
       IF NoVesselData(r.req.st)
         THEN Reply(Clear(c), "no_vessel_data")
         ELSE IF getEmailForPhone(r.req.tr.from, e) = <<>>
           THEN Reply(c, "no_email")
           ELSE Await(Call(c, "generateExcelFile"), "email_gen"))

RouteExistingKeepsState(r, e, t) ==
  IF isStateExpired(r.req.st, t)
    THEN Reply(Clear(Route(r, "expired")), "session_expired")
    ELSE CASE classify(r.req.text) = "download" ->
                handleExcelEntry(Route(r, "download"))
           [] classify(r.req.text) = "email" ->
                handleEmailEntry(Route(r, "email"), e)
           [] OTHER ->
                processNewQueryEntry(Route(r, "invalid_followup"))

\* exports.handler, the branch if (existingState)
routeExisting(r, e, t) ==
  IF isStateExpired(r.req.st, t)
    THEN Reply(Clear(Route(r, "expired")), "session_expired")
    ELSE CASE classify(r.req.text) = "download" ->
                handleExcelEntry(Route(r, "download"))
           [] classify(r.req.text) = "email" ->
                handleEmailEntry(Route(r, "email"), e)
           [] OTHER ->
                processNewQueryEntry(Clear(Route(r, "invalid_followup")))

\* exports.handler from the read of the pending state on
afterRateLimit(r, e, t) ==
  LET g == getState(r.store, r.req.tr.from, t)
      r2 == [r EXCEPT !.store = g.store, !.req.st = g.result,
                      !.req.tr.getCalled = TRUE, !.req.tr.got = g.result,
                      !.req.tr.afterGet =
                         Entry(g.store, normalizePhoneNumber(r.req.tr.from))]
  IN IF g.result # Null
       THEN routeExisting(r2, e, t)
       ELSE processNewQueryEntry(Route(r2, "new"))

\* the requests the rate limiter has counted for the key in the window that
\* time t falls in
WindowCount(rate, key, t) ==
  IF key \notin DOMAIN rate \/ t > rate[key].resetAt THEN 0 ELSE rate[key].count

RateLimitedLogOnly(r, e, t) ==
  LET rl == checkRateLimit(r.rate, r.req.tr.from, t)
      r1 == [r EXCEPT !.rate = rl.rate, !.req.tr.rateChecked = TRUE,
                      !.req.tr.allowed = rl.allowed,
                      !.req.tr.counted =
                         (rl.rate[r.req.tr.from].count
                            = WindowCount(r.rate, r.req.tr.from, t) + 1)]
  IN afterRateLimit(IF rl.allowed THEN r1 ELSE Route(r1, "rate_limited"), e, t)

\* exports.handler, the rate limit check and what follows it
rateLimited(r, e, t) ==
  LET rl == checkRateLimit(r.rate, r.req.tr.from, t)
      r1 == [r EXCEPT !.rate = rl.rate, !.req.tr.rateChecked = TRUE,
                      !.req.tr.allowed = rl.allowed,
                      !.req.tr.counted =
                         (rl.rate[r.req.tr.from].count
                            = WindowCount(r.rate, r.req.tr.from, t) + 1)]
  IN IF ~rl.allowed
       THEN Reply(Route(r1, "rate_limited"), "rate_limited")
       ELSE afterRateLimit(r1, e, t)

\* exports.handler up to its first await: the store, the rate limit store and
\* the invocation's record afterwards
handlerEntry(store, rate, e, from, text, method, t) ==
  LET r0 == [store |-> store, rate |-> rate,
             req |-> NewRequest(store, from, text, t)]
      r == IF method # "POST" THEN Reply(r0, "method_not_allowed")
           ELSE Caught("handler",
                  IF ~e.configured THEN Reply(r0, "misconfigured")
                  ELSE IF Trim(text) = <<>> THEN Reply(r0, "empty_message")
                  ELSE IF from = <<>> THEN Reply(r0, "missing_sender")
                  ELSE rateLimited(r0, e, t))
  IN [Sent(r) EXCEPT !.req.tr.afterEntry = Entry(r.store, normalizePhoneNumber(from)),
                     !.req.tr.storeSame = (r.store = store)]

-----------------------------------------------------------------------------
(* The new-query path after the intent detection has answered *)

HandlerName(intent) ==
  CASE intent = "risk_score" -> "handleRiskScoreIntent"
    [] intent = "risk_level" -> "handleRiskLevelIntent"
    [] intent = "recommendations" -> "handleRecommendationsIntent"
    [] OTHER -> "handleVesselInfoIntent"

\* the three catch blocks around the code of an intent handler that gave r
CaughtByAll(r) ==
  Caught("handler", Caught("processNewQuery", Caught(HandlerName(r.req.intent), r)))

\* vesselName || vesselIdentifier
NameOrIdentifier(req) == IF req.vesselName # <<>> THEN req.vesselName ELSE req.vid

\* vesselLookup.getVesselByIMO(imo) and getVesselByName(name) have been called
\* for the invocation, by the handler or by the api client
LookedUpByIMO(r, imo) == [r EXCEPT !.req.tr.byIMO = @ \cup {imo}]

LookedUpByName(r, name) == [r EXCEPT !.req.tr.byName = @ \cup {name}]

\* handleRiskScoreIntent, handleRiskLevelIntent and handleRecommendationsIntent,
\* step 1: resolve the vessel identifier with vessel-lookup
resolved(r, vid, isIMO, lookup) ==
  LET imo == IF isIMO THEN Trim(vid.chars)
             ELSE IF lookup # Null THEN lookup.imo ELSE <<>>
      vesselName == IF lookup # Null THEN lookup.name ELSE <<>>
      c == IF isIMO THEN LookedUpByIMO(Call(r, "getVesselByIMO"), Trim(vid.chars))
           ELSE LookedUpByName(Call(r, "getVesselByName"), vid.chars)
  IN IF imo = <<>>
       THEN Reply(c, "vessel_not_found")
       ELSE Await(Call([c EXCEPT !.req.vid = vid.chars, !.req.imo = imo,
                                 !.req.vesselName = vesselName],
                       "fetchVesselByName"), "vessel")

\* the test /^\d+$/ and the call of vessel-lookup that follows it
resolveVessel(r, vid) ==
  IF vid.kind # "string" THEN Throw(r)   \* vesselIdentifier.trim is not a function
  ELSE resolved(r, vid, AllDigits(Trim(vid.chars)),
                IF AllDigits(Trim(vid.chars)) THEN getVesselByIMO(Trim(vid.chars))
                ELSE getVesselByName(vid.chars))

\* the intent detection has answered o: what came back and the confidence it
\* states
Answered(r, o) ==
  [r EXCEPT !.req.tr.answer = [kind |-> o.kind, confidence |-> o.confidence]]

\* processNewQuery from the answer o of the intent detection to the next await
intentDetected(r, o) ==
  Caught("handler", Caught("processNewQuery",
    CASE o.kind = "fetch_error" -> Reply(Failed(Answered(r, o)), "intent_trouble")
      [] o.kind = "not_ok" -> Reply(Failed(Answered(r, o)), "unclear_intent")
      [] o.kind = "json_throw" -> Throw(Failed(Answered(r, o)))
      [] o.kind = "unparseable" -> Reply(Failed(Answered(r, o)), "unclear_intent")
      [] OTHER ->
           IF o.intent = "" \/ o.intent = "unknown" \/ o.intent \notin SUPPORTED_INTENTS
             THEN Reply(Answered(r, o), "unclear_intent")
           ELSE IF o.vid.kind = "null" \/ (o.vid.kind = "string" /\ o.vid.chars = <<>>)
             THEN Reply(Answered(r, o), "need_vessel")
           ELSE IF o.intent = "vessel_info"
             THEN Reply(Call(Answered(r, o), "handleVesselInfoIntent"), "vessel_info_soon")
           ELSE Caught(HandlerName(o.intent),
                  resolveVessel(Call([Answered(r, o) EXCEPT !.req.intent = o.intent],
                                     HandlerName(o.intent)), o.vid))))

\* apiClient.fetchVesselByName(vesselName) when the dashboard answers o;
\* vesselLookup is what its call getVesselByName(vesselName) returns
fetchVesselByName(vesselName, vesselLookup, o) ==
  IF vesselName = <<>> \/ vesselLookup = Null \/ o # "found" THEN Null
  ELSE [imo |-> vesselLookup.imo, name |-> vesselLookup.name]

\* the intent handlers, step 2: the vessel data has been fetched
vesselFetched(r, vesselLookup, o) ==
  LET vesselData == fetchVesselByName(NameOrIdentifier(r.req), vesselLookup, o)
      n == IF NameOrIdentifier(r.req) = <<>> THEN r
           ELSE LookedUpByName(r, NameOrIdentifier(r.req))
      f == IF o = "error" THEN Failed(n) ELSE n
  IN CaughtByAll(
       IF vesselData = Null THEN Reply(f, "vessel_not_found")
       ELSE IF r.req.intent = "recommendations"
         THEN Await(Call([f EXCEPT !.req.vesselData = vesselData],
                         "fetchRecommendations"), "recs")
         ELSE Await(Call([f EXCEPT !.req.vesselData = vesselData],
                         "callClaude"), "analysis"))

\* handleRiskScoreIntent and handleRiskLevelIntent, steps 3 and 4
analysisDone(r, o) ==
  CaughtByAll(IF o = "null" THEN Reply(Failed(r), "analysis_failed")
              ELSE Reply(r, "analysis"))

\* handleRecommendationsIntent, step 3: apiClient.fetchRecommendations(imo)
\* has answered
recommendationsFetched(r, o) ==
  CaughtByAll(
    IF o = "null" THEN Reply(Failed(r), "recs_unavailable")
    ELSE Await(Call([r EXCEPT !.req.recs = [imo |-> r.req.imo]], "summary"),
               "summary"))

\* the state data handleRecommendationsIntent saves
FollowUpState(req, t) ==
  [intent |-> "recommendations", vesselName |-> NameOrIdentifier(req),
   vesselIMO |-> req.imo, vesselData |-> req.vesselData,
   recommendationsData |-> req.recs, timestamp |-> t]

SummaryDoneSavesFirst(r, o, t) ==
  LET saved == [r EXCEPT !.store =
                  saveState(r.store, r.req.tr.from, FollowUpState(r.req, t), t).store]
  IN CaughtByAll(
       IF o = "throw" THEN Throw(Failed(saved))
       ELSE Reply(saved, "followup_prompt"))

\* handleRecommendationsIntent, steps 4 to 7: the summary request has answered
summaryDone(r, o, t) ==
  CaughtByAll(
    IF o = "throw" THEN Throw(Failed(r))
    ELSE Reply([r EXCEPT !.store =
                   saveState(r.store, r.req.tr.from, FollowUpState(r.req, t), t).store],
               "followup_prompt"))

-----------------------------------------------------------------------------
(* The follow-up handlers after their awaits *)

\* handleExcelRequest after generateExcelFile
excelGenerated(r, o) ==
  Caught("handler", Caught("handleExcelRequest",
    IF o = "throw" THEN Throw(Failed(r))
    ELSE Reply(Clear(r), "download_link")))

\* handleEmailRequest after generateExcelFile
emailExcelGenerated(r, o) ==
  Caught("handler", Caught("handleEmailRequest",
    IF o = "throw" THEN Throw(Failed(r))
    ELSE Await(Call(r, "sendEmail"), "email_send")))

EmailSendDoneClears(r, o) ==
  Caught("handler", Caught("handleEmailRequest",
    CASE o = "not_ok" -> Reply(Clear(Failed(r)), "email_failed")
      [] o = "ok" -> Reply(Clear(r), "email_sent")
      [] OTHER -> Throw(Failed(r))))

\* handleEmailRequest after the send-email function has answered
emailSendDone(r, o) ==
  Caught("handler", Caught("handleEmailRequest",
    CASE o = "not_ok" -> Reply(Failed(r), "email_failed")
      [] o = "ok" -> Reply(Clear(r), "email_sent")
      [] OTHER -> Throw(Failed(r))))

-----------------------------------------------------------------------------
(* Inputs and the answers of the collaborators *)

Senders ==
  { <<>>, <<"w",":">>, <<"+","1","5">> }

Texts ==
  { <<" ">>, <<"1">>, <<"2">>, <<"b","a","n","a","n","a">> }

Methods == {"POST", "GET"}

NullIdentifier == [kind |-> "null", chars |-> <<>>]

KnownIMO == [kind |-> "string", chars |-> <<"9","4","8","1","2","1","9">>]

Identifiers ==
  { NullIdentifier,
    [kind |-> "number", chars |-> <<"9","4","8","1","2","1","9">>],
    KnownIMO,
    [kind |-> "string", chars |-> <<"g","c","l"," ","t","a","p","i">>],
    [kind |-> "string", chars |-> <<"X","Y","Z">>],
    [kind |-> "string", chars |-> <<" ","9","4">>] }

Intents == SUPPORTED_INTENTS \cup {"", "unknown", "inspections"}

IntentAnswers ==
  { [kind |-> k, intent |-> "", vid |-> NullIdentifier, confidence |-> "high"] :
      k \in {"fetch_error", "not_ok", "json_throw", "unparseable"} }
  \cup
  { [kind |-> "parsed", intent |-> i, vid |-> v, confidence |-> "high"] :
      i \in Intents, v \in Identifiers }
  \cup
  { [kind |-> "parsed", intent |-> i, vid |-> KnownIMO, confidence |-> "low"] :
      i \in Intents }

VesselAnswers == {"found", "absent", "error"}

AnalysisAnswers == {"text", "null"}

RecommendationsAnswers == {"data", "null"}

SummaryAnswers == {"ok", "not_ok", "throw"}

ExcelAnswers == {"ok", "throw"}

SendAnswers == {"ok", "not_ok", "fetch_throw", "json_throw"}

EnvChoices ==
  { [configured |-> TRUE, defaultEmail |-> TRUE],
    [configured |-> TRUE, defaultEmail |-> FALSE],
    [configured |-> FALSE, defaultEmail |-> FALSE] }

\* a sender who has used all but one request of a window that is still open
HeavySender == <<"+","1","5">>

\* the webhook requests: every sender with every text in a configured
\* deployment, and one request each with another method and without the
\* required environment
Requests ==
  { [from |-> f, text |-> x, method |-> "POST", env |-> e] :
      f \in Senders, x \in Texts, e \in {c \in EnvChoices : c.configured} }
  \cup
  { [from |-> HeavySender, text |-> <<"1">>, method |-> m,
     env |-> [configured |-> c, defaultEmail |-> FALSE]] :
      m \in Methods, c \in BOOLEAN }

EmptyMap == [k \in {} |-> Null]

RateChoices ==
  { EmptyMap,
    [k \in {HeavySender} |->
       [count |-> RATE_LIMIT_MAX_REQUESTS - 1, resetAt |-> StartTime + 3 * TickMs]] }

-----------------------------------------------------------------------------
(* The state machine *)

Slots == 1..MaxInFlight

Init ==
  /\ now = StartTime
  /\ stateStore = EmptyMap
  /\ rateLimitStore \in RateChoices
  /\ reqs = [i \in Slots |-> Idle]
  /\ started = 0
  /\ last = Null
  /\ hist = Null
  /\ vesselCache = DEFAULT_VESSELS

Finished(req) == req.pc \in {"done", "thrown"}

\* the record of an invocation that has returned (or thrown) at time t
Record(r) ==
  [r.req.tr EXCEPT !.post = Entry(r.store, normalizePhoneNumber(r.req.tr.from)),
                   !.exception = (r.req.pc = "thrown")]

\* the invocation in slot i has run to its next await or to its end
Apply(i, r) ==
  /\ stateStore' = r.store
  /\ rateLimitStore' = r.rate
  /\ IF Finished(r.req)
       THEN /\ reqs' = [reqs EXCEPT ![i] = Idle]
            /\ last' = Record(r)
       ELSE /\ reqs' = [reqs EXCEPT ![i] = r.req]
            /\ UNCHANGED last
  /\ UNCHANGED now

Running(i) == [store |-> stateStore, rate |-> rateLimitStore, req |-> reqs[i]]

FreeSlot == CHOOSE i \in Slots : reqs[i] = Idle /\ \A j \in Slots : reqs[j] = Idle => i <= j

\* the invocation that has just run to its first await takes a free slot, or
\* has already returned
Enter(r) ==
  /\ Finished(r.req) \/ \E i \in Slots : reqs[i] = Idle
  /\ IF Finished(r.req)
       THEN /\ stateStore' = r.store
            /\ rateLimitStore' = r.rate
            /\ last' = Record(r)
            /\ UNCHANGED reqs
       ELSE /\ Apply(FreeSlot, r)

\* a webhook request arrives: exports.handler runs to its first await
Receive(from, text, method, e) ==
  /\ started < MaxRequests
  /\ Enter(handlerEntry(stateStore, rateLimitStore, e, from, text, method, now))
  /\ started' = started + 1
  /\ UNCHANGED <<now, hist, vesselCache>>

\* An invocation touches the stores and the clock only in its first and in its
\* last synchronous stretch; the awaits in between read and write its locals
\* alone, so they are taken as one step with the answers of the collaborators.

\* handleRecommendationsIntent after fetchRecommendations: the summary answers
AfterRecommendations(i, r) ==
  IF Finished(r.req) THEN Apply(i, r)
  ELSE \E o \in SummaryAnswers : Apply(i, summaryDone(r, o, now))

\* an intent handler after fetchVesselByName: the analysis or the
\* recommendations answer
AfterVessel(i, r) ==
  IF Finished(r.req) THEN Apply(i, r)
  ELSE IF r.req.pc = "analysis"
    THEN \E o \in AnalysisAnswers : Apply(i, analysisDone(r, o))
    ELSE \E o \in RecommendationsAnswers :
           AfterRecommendations(i, recommendationsFetched(r, o))

\* fetchVesselByName has looked the vessel up and the dashboard answers
LookedUp(i, r, vesselLookup) ==
  \E o \in VesselAnswers : AfterVessel(i, vesselFetched(r, vesselLookup, o))

\* processNewQuery after the intent detection: the vessel data answers
AfterIntent(i, r) ==
  IF Finished(r.req) THEN Apply(i, r)
  ELSE LookedUp(i, r, getVesselByName(NameOrIdentifier(r.req)))

\* the invocation in slot i is a new query: the intent detection, the vessel
\* data, the recommendations and the summary or analysis answer, and the intent
\* handler returns
CompleteNewQuery(i) ==
  /\ reqs[i].pc = "intent"
  /\ \E o \in IntentAnswers : AfterIntent(i, intentDetected(Running(i), o))
  /\ UNCHANGED <<started, hist, vesselCache>>

\* the invocation in slot i is a download selection: generateExcelFile answers
\* and handleExcelRequest returns
CompleteExcel(i) ==
  /\ reqs[i].pc = "excel_gen"
  /\ \E o \in ExcelAnswers : Apply(i, excelGenerated(Running(i), o))
  /\ UNCHANGED <<started, hist, vesselCache>>

\* handleEmailRequest after generateExcelFile: the send-email function answers
AfterEmailExcel(i, r) ==
  IF Finished(r.req) THEN Apply(i, r)
  ELSE \E o \in SendAnswers : Apply(i, emailSendDone(r, o))

\* the invocation in slot i is an email selection: generateExcelFile and the
\* send-email function answer and handleEmailRequest returns
CompleteEmail(i) ==
  /\ reqs[i].pc = "email_gen"
  /\ \E o \in ExcelAnswers : AfterEmailExcel(i, emailExcelGenerated(Running(i), o))
  /\ UNCHANGED <<started, hist, vesselCache>>

\* the interval timer of startAutoCleanup fires
Cleanup ==
  /\ stateStore' = cleanupExpiredStates(stateStore, now).store
  /\ stateStore' # stateStore
  /\ UNCHANGED <<now, rateLimitStore, reqs, started, last, hist, vesselCache>>

\* time passes
Tick ==
  /\ now < StartTime + MaxTicks * TickMs
  /\ now' = now + TickMs
  /\ UNCHANGED <<stateStore, rateLimitStore, reqs, started, last, hist, vesselCache>>

Next ==
  \/ \E q \in Requests : Receive(q.from, q.text, q.method, q.env)
  \/ \E i \in Slots : CompleteNewQuery(i)
  \/ \E i \in Slots : CompleteExcel(i)
  \/ \E i \in Slots : CompleteEmail(i)
  \/ Cleanup
  \/ Tick

Spec == Init /\ [][Next]_vars

-----------------------------------------------------------------------------
(* Properties.  tr is what an invocation has done: pre, preAge and choice    *)
(* are the sender's stored state, its age and what the text selects from it  *)
(* when the message arrives; got and afterGet are the result of getState and *)
(* the stored state right after it; afterEntry and storeSame describe the    *)
(* store at the first await; post is the sender's stored state at the return.*)

\* the invocations that have started, and the one that returned last
InFlight == { reqs[i].tr : i \in { j \in Slots : reqs[j].pc # "idle" } }

Returned == IF last = Null THEN {} ELSE {last}

Handled == InFlight \cup Returned

\* the message was admitted by the rate limiter
Admitted(tr) == tr.rateChecked /\ tr.allowed

\* the stored state of the sender had passed its expiresAt when the message came
Lapsed(tr) == tr.pre # Null /\ tr.preAge > tr.pre.expiresAt - tr.pre.timestamp

FollowUpHandlers == {"handleExcelRequest", "handleEmailRequest"}

\* the message passed the checks of the method, the environment and the text
PassedBodyChecks(tr) ==
  \/ tr.replies = <<>>
  \/ tr.replies[1] \notin {"method_not_allowed", "misconfigured", "empty_message"}

FailureReplies ==
  { "generic_failure", "excel_error", "email_failed", "risk_score_failure",
    "risk_level_failure", "recommendations_failure" }

\* C1: getState never returns a state whose expiresAt is earlier than the time
\* of the read; a read after expiresAt returns null, as if nothing had been
\* saved (the message is a new query), and removes the entry from the store.
C1_ExpiredStateNeverReturned ==
  \A tr \in Handled :
    tr.getCalled =>
      /\ tr.got # Null =>
           /\ tr.got = tr.pre
           /\ tr.preAge <= tr.got.expiresAt - tr.got.timestamp
      /\ Lapsed(tr) =>
           /\ tr.got = Null
           /\ tr.afterGet = Null
           /\ tr.route = "new"

\* a read of a state that has passed its expiresAt has been made
C1_Witness ==
  \E tr \in Handled : tr.getCalled /\ Lapsed(tr) /\ tr.got = Null

\* C2: a selection ("1" or "2") that finds a pending state is dispatched to its
\* follow-up handler with that state, and no state is stored for the sender
\* when the invocation has returned.
C2_SelectionConsumesState ==
  \A tr \in Returned :
    Admitted(tr) /\ tr.got # Null /\ tr.choice \in {"download", "email"} =>
      /\ tr.route = tr.choice
      /\ tr.calls \cap FollowUpHandlers # {}
      /\ tr.payload = tr.got
      /\ tr.post = Null

\* C3: a text that is no selection and finds a pending state has the state
\* cleared before anything else and is then processed as a new query; no
\* follow-up handler runs and the old state is passed to no handler.
C3_OtherTextClearsThenNewQuery ==
  \A tr \in Handled :
    Admitted(tr) /\ tr.got # Null /\ tr.choice = "other" =>
      /\ tr.route = "invalid_followup"
      /\ tr.afterEntry = Null
      /\ {"processNewQuery", "detectIntent"} \subseteq tr.calls
      /\ tr.calls \cap FollowUpHandlers = {}
      /\ tr.payload = Null

\* a text that is no selection has found a pending state and has been answered
C3_Witness ==
  \E tr \in Returned :
    Admitted(tr) /\ tr.got # Null /\ tr.choice = "other" /\ Len(tr.replies) = 1

\* C4: a message that finds a stored state whose time to live has lapsed is
\* answered with the session-expired message, is processed neither as a new
\* query nor as a follow-up, and leaves no state for the sender.
C4_LapsedStateAnswersExpired ==
  \A tr \in Handled :
    Admitted(tr) /\ Lapsed(tr) =>
      /\ tr.route = "expired"
      /\ tr.replies = <<"session_expired">>
      /\ tr.calls = {}
      /\ tr.afterEntry = Null

\* C5: when the reply to a new query is the follow-up prompt, a state keyed by
\* the normalized sender is stored at the return, holding the resolved IMO, the
\* vessel data and the recommendations data, and expiring one time to live
\* after it was saved.
C5_PromptHasStoredState ==
  \A tr \in Returned :
    tr.replies = <<"followup_prompt">> =>
      /\ tr.post # Null
      /\ tr.post.vesselIMO # <<>>
      /\ Field(tr.post, "vesselData") # Null
      /\ Field(tr.post, "recommendationsData") # Null
      /\ tr.post.expiresAt = tr.post.timestamp + STATE_EXPIRY_MS

\* C6: a selection that arrives less than 10 minutes after the state was saved
\* still finds the state and is dispatched as a follow-up.
C6_UsableForTenMinutes ==
  \A tr \in Handled :
    /\ Admitted(tr)
    /\ tr.pre # Null
    /\ tr.preAge < WEBHOOK_STATE_EXPIRY_MS
    /\ tr.choice \in {"download", "email"}
    => /\ tr.got = tr.pre
       /\ tr.route = tr.choice

\* C7: a message the rate limiter denies is answered with the rate limit
\* message; the session store is what it was, the state manager is not read
\* and no collaborator or handler is called.
C7_DeniedTouchesNothing ==
  \A tr \in Handled :
    tr.rateChecked /\ ~tr.allowed =>
      /\ tr.route = "rate_limited"
      /\ tr.replies = <<"rate_limited">>
      /\ tr.storeSame
      /\ tr.afterEntry = tr.pre
      /\ ~tr.getCalled
      /\ tr.calls = {}

\* a sender with a pending state has been denied by the rate limiter
C7_Witness ==
  \E tr \in Returned : tr.rateChecked /\ ~tr.allowed /\ tr.pre # Null

\* C8: when a collaborator fails while a follow-up handler works on a pending
\* state, no state is stored for the sender when the reply is returned.
C8_FailureClearsState ==
  \A tr \in Returned :
    tr.calls \cap FollowUpHandlers # {} /\ tr.failed => tr.post = Null

C10_EmptyKeyRejected ==
  \A tr \in Handled :
    PassedBodyChecks(tr) /\ normalizePhoneNumber(tr.from) = <<>> =>
      /\ tr.replies = <<"missing_sender">>
      /\ ~tr.rateChecked
      /\ ~tr.getCalled
      /\ tr.calls = {}

-----------------------------------------------------------------------------
(* utils/state-manager driven directly by its callers: saveState, getState,  *)
(* clearState and the sweep of the interval timer, called in any order with  *)
(* phone numbers in several formattings.                                     *)

\* the phone numbers, each with the formattings its callers use; a number is
\* named by its digits
PhoneBook ==
  (<<"1","5">> :> { <<"+","1","5">>, <<"1","-","5">> })
  @@ (<<"1","6">> :> { <<"w",":","+","1","6">> })

Numbers == DOMAIN PhoneBook

\* a caller may also pass a string without a digit
Phones == UNION { PhoneBook[n] : n \in Numbers } \cup { <<"w",":">> }

\* the number a formatting belongs to, <<>> if it belongs to none
NumberOf(phone) ==
  IF \E n \in Numbers : phone \in PhoneBook[n]
    THEN CHOOSE n \in Numbers : phone \in PhoneBook[n]
    ELSE <<>>

\* the state data the callers save: the data of a recommendations follow-up,
\* data with other fields, and a state object that an earlier save has stamped
StateData ==
  { [intent |-> "recommendations", vesselIMO |-> KnownIMO.chars],
    [intent |-> "risk_score", vesselName |-> <<"G">>],
    [intent |-> "recommendations", vesselIMO |-> KnownIMO.chars,
     timestamp |-> StartTime - TickMs,
     expiresAt |-> StartTime - TickMs + STATE_EXPIRY_MS] }

\* what the callers saved last for the number of a formatting (see hist)
SavedFor(phone) ==
  IF NumberOf(phone) \in Numbers THEN hist[NumberOf(phone)] ELSE Null

\* a call of the state manager, described by the record call, returns
\* r = [store, result]
Returns(call, r) ==
  /\ stateStore' = r.store
  /\ last' = call @@ [at |-> now, pre |-> stateStore,
                      result |-> r.result, post |-> r.store]
  /\ UNCHANGED <<now, rateLimitStore, reqs, vesselCache>>

\* stateManager.saveState(phone, data)
SaveCall(phone, data) ==
  /\ started < MaxOps
  /\ Returns([op |-> "save", phone |-> phone, data |-> data,
              saved |-> SavedFor(phone)],
             saveState(stateStore, phone, data, now))
  /\ hist' = IF saveState(stateStore, phone, data, now).result
               THEN [hist EXCEPT ![NumberOf(phone)] =
                                   [phone |-> phone, data |-> data, at |-> now]]
               ELSE hist
  /\ started' = started + 1

\* stateManager.getState(phone)
GetCall(phone) ==
  /\ started < MaxOps
  /\ Returns([op |-> "get", phone |-> phone, saved |-> SavedFor(phone)],
             getState(stateStore, phone, now))
  /\ started' = started + 1
  /\ UNCHANGED hist

\* stateManager.clearState(phone)
ClearCall(phone) ==
  /\ started < MaxOps
  /\ Returns([op |-> "clear", phone |-> phone, data |-> Null,
              saved |-> SavedFor(phone)],
             clearState(stateStore, phone))
  /\ hist' = IF NumberOf(phone) \in Numbers
               THEN [hist EXCEPT ![NumberOf(phone)] = Null]
               ELSE hist
  /\ started' = started + 1

\* the interval timer of startAutoCleanup fires: cleanupExpiredStates()
Sweep ==
  /\ Returns([op |-> "sweep"], cleanupExpiredStates(stateStore, now))
  /\ UNCHANGED <<started, hist>>

\* hist: for each number the data its callers saved last, under which
\* formatting and when; Null when nothing was saved or clearState was called
\* since
StoreInit ==
  /\ now = StartTime
  /\ stateStore = EmptyMap
  /\ rateLimitStore = EmptyMap
  /\ reqs = [i \in Slots |-> Idle]
  /\ started = 0
  /\ last = Null
  /\ hist = [n \in Numbers |-> Null]
  /\ vesselCache = DEFAULT_VESSELS

StoreNext ==
  \/ \E phone \in Phones, data \in StateData : SaveCall(phone, data)
  \/ \E phone \in Phones : GetCall(phone)
  \/ \E phone \in Phones : ClearCall(phone)
  \/ Sweep
  \/ Tick

StoreSpec == StoreInit /\ [][StoreNext]_vars

\* a firing of the timer that finds an expired state to delete
SweepRemoves ==
  /\ cleanupExpiredStates(stateStore, now).result > 0
  /\ UNCHANGED <<now, started>>
  /\ Sweep

\* the timer keeps firing: a sweep with something to delete is not put off
\* for ever
StoreLive == StoreSpec /\ WF_vars(SweepRemoves)

-----------------------------------------------------------------------------
(* The rate limiter of whatsapp-webhook driven directly: exports.handler     *)
(* calls checkRateLimit(fromNumber) with the From of each message.           *)

\* the checks of one behaviour: enough to use up a window and go on
MaxChecks == RATE_LIMIT_MAX_REQUESTS + MaxExtraChecks

\* one step of the clock: half a window
RateTickMs == RATE_LIMIT_WINDOW_MS \div 2

\* the From strings of the messages: one number in two formattings
RateSenders == PhoneBook[<<"1","5">>]

\* the window a check at time t falls in, for a caller who has counted
\* w = [end, n]: n allowed checks in the window that ends at end
WindowAt(w, t) ==
  IF w = Null \/ t > w.end THEN [end |-> t + RATE_LIMIT_WINDOW_MS, n |-> 0] ELSE w

\* the caller's count after a check at time t
Counted(w, t, allowed) ==
  [WindowAt(w, t) EXCEPT !.n = IF allowed THEN @ + 1 ELSE @]

\* checkRateLimit(from) has returned r
Checked(from, r) ==
  /\ rateLimitStore' = r.rate
  /\ last' = [op |-> "check", phone |-> from, at |-> now,
              pre |-> rateLimitStore, post |-> r.rate,
              seen |-> WindowAt(hist[from], now).n,
              late |-> (from \in DOMAIN rateLimitStore /\ now > rateLimitStore[from].resetAt),
              allowed |-> r.allowed, remaining |-> r.remaining, resetAt |-> r.resetAt]
  /\ hist' = [hist EXCEPT ![from] = Counted(@, now, r.allowed)]

\* a message from the sender arrives and is checked
CheckCall(from) ==
  /\ started < MaxChecks
  /\ Checked(from, checkRateLimit(rateLimitStore, from, now))
  /\ started' = started + 1
  /\ UNCHANGED <<now, stateStore, reqs, vesselCache>>

\* time passes
RateTick ==
  /\ now < StartTime + MaxRateTicks * RateTickMs
  /\ now' = now + RateTickMs
  /\ UNCHANGED <<stateStore, rateLimitStore, reqs, started, last, hist, vesselCache>>

\* hist: for each From the checks the sender has seen allowed in the window
RateInit ==
  /\ now = StartTime
  /\ stateStore = EmptyMap
  /\ rateLimitStore = EmptyMap
  /\ reqs = [i \in Slots |-> Idle]
  /\ started = 0
  /\ last = Null
  /\ hist = [from \in RateSenders |-> Null]
  /\ vesselCache = DEFAULT_VESSELS

RateNext ==
  \/ \E from \in RateSenders : CheckCall(from)
  \/ RateTick

RateSpec == RateInit /\ [][RateNext]_vars

-----------------------------------------------------------------------------
(* Properties of the libraries *)

\* C11: two messages whose senders differ only in formatting are counted
\* against one and the same rate limit record: the rate limit store never
\* holds two records for one number.
C11_OneRecordPerNumber ==
  \A n \in Numbers :
    Cardinality({ k \in DOMAIN rateLimitStore : k = n \/ k \in PhoneBook[n] }) <= 1


\* the call that returned last was made for a number whose callers saved
\* data that has not reached the end of its life
LiveSaved(c) == c.saved # Null /\ c.at <= c.saved.at + STATE_EXPIRY_MS

\* C12: formattings of one number give one key and normalizing is idempotent,
\* so data saved under one formatting is found by getState and removed by
\* clearState under every other formatting of the number.
C12_FormattingIgnored ==
  /\ \A p \in Phones :
       normalizePhoneNumber(normalizePhoneNumber(p)) = normalizePhoneNumber(p)
  /\ \A n \in Numbers : \A p \in PhoneBook[n] : normalizePhoneNumber(p) = n
  /\ last # Null /\ last.op = "get" /\ LiveSaved(last) =>
       /\ last.result # Null
       /\ last.result.intent = last.saved.data.intent
       /\ last.result.timestamp = last.saved.at
  /\ last # Null /\ last.op = "clear" /\ LiveSaved(last) =>
       /\ last.result
       /\ NumberOf(last.phone) \notin DOMAIN last.post

\* data saved under one formatting has been read under another
C12_Witness ==
  /\ last # Null /\ last.op = "get" /\ LiveSaved(last)
  /\ last.saved.phone # last.phone
  /\ last.result # Null


\* the fields saveState sets itself
Stamps == {"timestamp", "expiresAt"}

\* C13, as the code has it: a getState made less than one time to live after
\* a saveState, with no saveState or clearState for the number in between,
\* returns every field of the saved data other than timestamp and expiresAt
\* with the value passed to saveState, whatever reads and sweeps came in
\* between; timestamp and expiresAt are the time of the save and that time
\* plus the time to live.
C13_SavedDataReturned ==
  last # Null /\ last.op = "get" /\ last.saved # Null
              /\ last.at - last.saved.at < STATE_EXPIRY_MS =>
    /\ last.result # Null
    /\ DOMAIN last.result = DOMAIN last.saved.data \cup Stamps
    /\ \A f \in DOMAIN last.saved.data \ Stamps : last.result[f] = last.saved.data[f]
    /\ last.result.timestamp = last.saved.at
    /\ last.result.expiresAt = last.saved.at + STATE_EXPIRY_MS

\* saved data has been read some time after it was saved
C13_Witness ==
  /\ last # Null /\ last.op = "get" /\ last.saved # Null
  /\ last.at > last.saved.at /\ last.at - last.saved.at < STATE_EXPIRY_MS
  /\ last.result # Null

\* C13, as stated: such a getState returns every field of the saved data with
\* exactly the value that was passed to saveState.
C13_EveryFieldAsPassed ==
  last # Null /\ last.op = "get" /\ last.saved # Null
              /\ last.at - last.saved.at < STATE_EXPIRY_MS =>
    /\ last.result # Null
    /\ \A f \in DOMAIN last.saved.data : last.result[f] = last.saved.data[f]


\* the entry of a number in a store, Null if it has none
EntryOf(store, phone) == Entry(store, NumberOf(phone))

\* C14: a saveState leaves exactly one entry for the number, whatever was
\* stored for it before: the entry holds the fields of the new data and
\* nothing of the old, with timestamp = now and expiresAt = now + the time to
\* live; the store never holds more entries than numbers with saved data.
C14_SaveOverwrites ==
  /\ Cardinality(DOMAIN stateStore) <= Cardinality({ n \in Numbers : hist[n] # Null })
  /\ DOMAIN stateStore \subseteq Numbers
  /\ last # Null /\ last.op = "save" /\ last.result =>
       /\ EntryOf(last.post, last.phone) # Null
       /\ DOMAIN EntryOf(last.post, last.phone) = DOMAIN last.data \cup Stamps
       /\ \A f \in DOMAIN last.data \ Stamps :
            EntryOf(last.post, last.phone)[f] = last.data[f]
       /\ EntryOf(last.post, last.phone).timestamp = last.at
       /\ EntryOf(last.post, last.phone).expiresAt = last.at + STATE_EXPIRY_MS
       /\ DOMAIN last.post = DOMAIN last.pre \cup {NumberOf(last.phone)}

\* data has been saved over stored data with other fields, under another
\* formatting of the number and at a later time
C14_Witness ==
  /\ last # Null /\ last.op = "save" /\ last.result
  /\ EntryOf(last.pre, last.phone) # Null
  /\ DOMAIN EntryOf(last.pre, last.phone) # DOMAIN EntryOf(last.post, last.phone)
  /\ last.saved # Null /\ last.saved.phone # last.phone
  /\ last.at > EntryOf(last.pre, last.phone).timestamp


\* C15: a getState that returns a state changes nothing in the store, so the
\* state keeps its timestamp and its expiresAt, and a getState made after the
\* time of the save plus the time to live returns null whatever was read
\* before.
C15_ReadDoesNotRefresh ==
  /\ last # Null /\ last.op = "get" /\ last.result # Null =>
       /\ last.post = last.pre
       /\ last.result = EntryOf(last.pre, last.phone)
       /\ last.saved # Null
       /\ last.result.expiresAt = last.saved.at + STATE_EXPIRY_MS
  /\ last # Null /\ last.op = "get" /\ last.saved # Null
                 /\ last.at > last.saved.at + STATE_EXPIRY_MS =>
       last.result = Null

\* a state has been read at the very end of its life and is still stored with
\* the expiresAt of its save
C15_Witness ==
  /\ last # Null /\ last.op = "get" /\ last.result # Null
  /\ last.at = last.result.expiresAt
  /\ EntryOf(stateStore, last.phone) = last.result


\* C16: clearState removes the entry of the number, whether it was live,
\* expired and not yet swept, or absent, tells whether there was one, and
\* leaves every other entry as it was; from then on getState returns null for
\* the number until data is saved for it again.
C16_ClearedStaysCleared ==
  /\ \A n \in Numbers : hist[n] = Null => n \notin DOMAIN stateStore
  /\ last # Null /\ last.op = "clear" =>
       /\ EntryOf(last.post, last.phone) = Null
       /\ last.result = (EntryOf(last.pre, last.phone) # Null)
       /\ DOMAIN last.post = DOMAIN last.pre \ {NumberOf(last.phone)}
       /\ \A k \in DOMAIN last.post : last.post[k] = last.pre[k]
  /\ last # Null /\ last.op = "get" /\ last.saved = Null =>
       /\ last.result = Null
       /\ last.post = last.pre

\* an entry that had expired and was not yet swept has been cleared while
\* another number had an entry
C16_Witness ==
  /\ last # Null /\ last.op = "clear" /\ last.result
  /\ last.at > EntryOf(last.pre, last.phone).expiresAt
  /\ DOMAIN last.post # {}


\* C17: the sweep runs to its end before any other call of the state manager
\* can run, and every entry it deletes has passed its expiresAt at that
\* moment; an entry whose expiresAt is still ahead, such as one saved again
\* for its number, is kept as it is.
C17_SweepDeletesOnlyExpired ==
  last # Null /\ last.op = "sweep" =>
    /\ DOMAIN last.post \subseteq DOMAIN last.pre
    /\ \A k \in DOMAIN last.pre :
         IF k \in DOMAIN last.post
           THEN last.post[k] = last.pre[k]
           ELSE last.at > last.pre[k].expiresAt
    /\ last.result = Cardinality(DOMAIN last.pre \ DOMAIN last.post)

\* a sweep has deleted an expired entry and has kept an entry that was saved
\* later and has not expired
C17_Witness ==
  /\ last # Null /\ last.op = "sweep" /\ last.result > 0
  /\ \E k \in DOMAIN last.post :
       /\ last.post[k].expiresAt > last.at
       /\ last.post[k].timestamp > StartTime


\* C18: as long as the sweep timer keeps firing, every session whose expiry
\* has passed is eventually no longer stored as a lapsed session, whether or
\* not anyone reads it again.
C18_LapsedEventuallyRemoved ==
  \A n \in Numbers :
    (n \in DOMAIN stateStore /\ now > stateStore[n].expiresAt)
      ~> ~(n \in DOMAIN stateStore /\ now > stateStore[n].expiresAt)

\* the sweep timer has fired and has removed a lapsed session that no one had
\* read or cleared
C18_Witness ==
  /\ last # Null /\ last.op = "sweep" /\ last.result > 0
  /\ \E n \in Numbers :
       /\ n \in DOMAIN last.pre /\ n \notin DOMAIN last.post
       /\ hist[n] # Null


\* C19: a check made for a key that has had RATE_LIMIT_MAX_REQUESTS checks
\* allowed in its window is denied, so that no key ever has more than
\* RATE_LIMIT_MAX_REQUESTS checks allowed in one window; the key is the From
\* that checkRateLimit is called with.
C19_AtMostMaxPerWindow ==
  /\ \A from \in RateSenders :
       hist[from] # Null =>
         /\ hist[from].n <= RATE_LIMIT_MAX_REQUESTS
         /\ from \in DOMAIN rateLimitStore
         /\ rateLimitStore[from].count = hist[from].n
  /\ last # Null /\ last.op = "check" /\ last.seen = RATE_LIMIT_MAX_REQUESTS =>
       /\ ~last.allowed
       /\ last.post[last.phone].count = RATE_LIMIT_MAX_REQUESTS

\* the check that follows RATE_LIMIT_MAX_REQUESTS allowed checks of one
\* window, made when the window ends, has been denied
C19_Witness ==
  /\ last # Null /\ last.op = "check" /\ ~last.allowed
  /\ last.seen = RATE_LIMIT_MAX_REQUESTS
  /\ last.at = last.resetAt

\* C20: a check made after the resetAt of the key's record is allowed whatever
\* the count of the record, and leaves the record with count 1 and with
\* resetAt one window after the check.
C20_LateCheckStartsWindow ==
  last # Null /\ last.op = "check" /\ last.late =>
    /\ last.allowed
    /\ last.post[last.phone] =
         [count |-> 1, resetAt |-> last.at + RATE_LIMIT_WINDOW_MS]
    /\ last.resetAt = last.at + RATE_LIMIT_WINDOW_MS
    /\ \A k \in DOMAIN last.pre \ {last.phone} :
         k \in DOMAIN last.post /\ last.post[k] = last.pre[k]

\* a check has been made after the resetAt of a record that had used up its
\* window
C20_Witness ==
  /\ last # Null /\ last.op = "check" /\ last.late /\ last.allowed
  /\ last.pre[last.phone].count = RATE_LIMIT_MAX_REQUESTS
  /\ last.post[last.phone].count = 1


\* C21: only a check changes the rate limit store, and it changes the record
\* of its key alone. While the record keeps its resetAt its count does not go
\* down, and a denied check leaves it as it was; resetAt moves only in a check
\* made after it has passed, which starts the count again and puts resetAt one
\* window ahead, so that the next check of the key does not start it again.
C21_CountGrowsWithinWindow ==
  last # Null /\ last.op = "check" =>
    /\ rateLimitStore = last.post
    /\ DOMAIN last.post = DOMAIN last.pre \cup {last.phone}
    /\ \A k \in DOMAIN last.pre \ {last.phone} : last.post[k] = last.pre[k]
    /\ last.phone \in DOMAIN last.pre =>
         IF last.late
           THEN /\ last.post[last.phone].count = 1
                /\ last.post[last.phone].resetAt = last.at + RATE_LIMIT_WINDOW_MS
                /\ last.post[last.phone].resetAt > last.at
           ELSE /\ last.post[last.phone].resetAt = last.pre[last.phone].resetAt
                /\ last.post[last.phone].count >= last.pre[last.phone].count
                /\ last.post[last.phone].count <= last.pre[last.phone].count + 1
    /\ ~last.allowed => last.post = last.pre

\* a check made before the end of a window that is used up has been denied
\* and has left the record as it was
C21_Witness ==
  /\ last # Null /\ last.op = "check" /\ ~last.allowed
  /\ last.at < last.resetAt
  /\ last.pre[last.phone].count = RATE_LIMIT_MAX_REQUESTS
  /\ last.post = last.pre


\* C22: the rate limiter counts a message only when it is accepted and is a
\* new query: a message that selects the download or the email of a pending
\* state, and a message that is rejected, are not counted for the sender.
C22_OnlyNewQueriesCounted ==
  \A tr \in Handled :
    tr.counted => /\ Admitted(tr)
                  /\ tr.route \notin {"download", "email"}


\* C23: the remaining value a check returns is max(0, RATE_LIMIT_MAX_REQUESTS
\* minus the count of the record as the check leaves it), so that the first
\* allowed check of a window reports one less than the maximum.
C23_RemainingAfterDecision ==
  last # Null /\ last.op = "check" =>
    last.remaining = Max(0, RATE_LIMIT_MAX_REQUESTS - last.post[last.phone].count)


-----------------------------------------------------------------------------
(* The rate limit check in concurrently handled messages.  Node.js runs the  *)
(* code of an invocation on one thread, from one await to the next without    *)
(* interruption; checkRateLimit has no await.  Each invocation is in reqs     *)
(* with its pc: it reads its limit (checking), stores it and goes on to the   *)
(* awaits of its handler (awaiting), and returns.                             *)

MayRunAnyTime(i) == TRUE

\* the invocation in slot i is between two steps of one synchronous stretch
Busy(i) == reqs[i].pc = "checking"

\* the event loop takes up the invocation in slot i only when no other
\* invocation is in the middle of a synchronous stretch
MayRun(i) == \A j \in Slots \ {i} : ~Busy(j)

\* checkRateLimit up to the reset of an expired window: userLimit
readLimit(rate, phoneNumber, t) ==
  LET stored == IF phoneNumber \in DOMAIN rate THEN rate[phoneNumber]
                ELSE [count |-> 0, resetAt |-> t + RATE_LIMIT_WINDOW_MS]
  IN IF t > stored.resetAt
       THEN [count |-> 0, resetAt |-> t + RATE_LIMIT_WINDOW_MS]
       ELSE stored

\* checkRateLimit from the computation of remaining on
storeLimit(rate, phoneNumber, userLimit) ==
  LET remaining == Max(0, RATE_LIMIT_MAX_REQUESTS - userLimit.count)
      allowed == userLimit.count < RATE_LIMIT_MAX_REQUESTS
      updated == IF allowed THEN [userLimit EXCEPT !.count = @ + 1] ELSE userLimit
  IN [rate |-> Put(rate, phoneNumber, updated),
      allowed |-> allowed, remaining |-> remaining, resetAt |-> userLimit.resetAt]

\* a message from the sender arrives: its invocation starts and reads the limit
BeginCheck(i, from) ==
  /\ started < MaxOps
  /\ reqs[i] = Idle
  /\ MayRun(i)
  /\ reqs' = [reqs EXCEPT ![i] = [pc |-> "checking", from |-> from, at |-> now,
                                   userLimit |-> readLimit(rateLimitStore, from, now)]]
  /\ started' = started + 1
  /\ UNCHANGED <<now, stateStore, rateLimitStore, last, hist, vesselCache>>

\* the check of the invocation in slot i has returned r
CheckReturns(i, r) ==
  /\ rateLimitStore' = r.rate
  /\ last' = [op |-> "check", slot |-> i, phone |-> reqs[i].from, at |-> reqs[i].at,
              pre |-> rateLimitStore, post |-> r.rate,
              seen |-> WindowAt(hist[reqs[i].from], reqs[i].at).n,
              others |-> { j \in Slots \ {i} : reqs[j].pc = "awaiting"
                                               /\ reqs[j].from = reqs[i].from },
              allowed |-> r.allowed, remaining |-> r.remaining, resetAt |-> r.resetAt]
  /\ hist' = [hist EXCEPT ![reqs[i].from] = Counted(@, reqs[i].at, r.allowed)]
  /\ reqs' = [reqs EXCEPT ![i] = [pc |-> "awaiting", from |-> reqs[i].from]]

\* the invocation in slot i stores the limit, and its handler goes on to its
\* first await
EndCheck(i) ==
  /\ reqs[i].pc = "checking"
  /\ MayRun(i)
  /\ CheckReturns(i, storeLimit(rateLimitStore, reqs[i].from, reqs[i].userLimit))
  /\ UNCHANGED <<now, stateStore, started, vesselCache>>

\* the handler of the invocation in slot i returns its response
Return(i) ==
  /\ reqs[i].pc = "awaiting"
  /\ MayRun(i)
  /\ reqs' = [reqs EXCEPT ![i] = Idle]
  /\ UNCHANGED <<now, stateStore, rateLimitStore, started, last, hist, vesselCache>>

\* the sender's record of the store, as the caller's count of the window
Known(rate, from) ==
  IF from \in DOMAIN rate
    THEN [end |-> rate[from].resetAt, n |-> rate[from].count]
    ELSE Null

LoopInit ==
  /\ now = StartTime
  /\ stateStore = EmptyMap
  /\ rateLimitStore \in RateChoices
  /\ reqs = [i \in Slots |-> Idle]
  /\ started = 0
  /\ last = Null
  /\ hist = [from \in RateSenders |-> Known(rateLimitStore, from)]
  /\ vesselCache = DEFAULT_VESSELS

LoopNext ==
  \/ \E i \in Slots, from \in RateSenders : BeginCheck(i, from)
  \/ \E i \in Slots : EndCheck(i)
  \/ \E i \in Slots : Return(i)
  \/ RateTick

LoopSpec == LoopInit /\ [][LoopNext]_vars

\* C24: the checks of concurrently handled messages take effect one at a
\* time: each check reads and writes the record as one call of checkRateLimit
\* on the store as it is when the check returns, no allowed check is lost from
\* the count, and a key has at most RATE_LIMIT_MAX_REQUESTS checks allowed in a
\* window.
C24_ChecksTakeEffectOneAtATime ==
  /\ \A from \in RateSenders :
       hist[from] # Null =>
         /\ hist[from].n <= RATE_LIMIT_MAX_REQUESTS
         /\ from \in DOMAIN rateLimitStore
         /\ rateLimitStore[from].count = hist[from].n
  /\ last # Null /\ last.op = "check" =>
       /\ checkRateLimit(last.pre, last.phone, last.at)
            = [rate |-> last.post, allowed |-> last.allowed,
               remaining |-> last.remaining, resetAt |-> last.resetAt]
       /\ last.allowed = (last.seen < RATE_LIMIT_MAX_REQUESTS)

\* a message has been denied while another message of the sender, which took
\* the last allowed check of the window, was still being handled
C24_Witness ==
  /\ last # Null /\ last.op = "check" /\ ~last.allowed
  /\ last.seen = RATE_LIMIT_MAX_REQUESTS
  /\ last.others # {}


IntentHandlers == { HandlerName(i) : i \in SUPPORTED_INTENTS }

\* the answer of the intent detection could not be parsed, or states a low
\* confidence
Unreliable(tr) ==
  \/ tr.answer.kind = "unparseable"
  \/ tr.answer.kind = "parsed" /\ tr.answer.confidence = "low"

\* C25: when the answer of the intent detection cannot be parsed or states a
\* low confidence, the message is answered with the unclear-intent message and
\* no intent handler is called, whatever intent and vessel the answer names.
C25_UnreliableAnswerIsUnclear ==
  \A tr \in Returned :
    Unreliable(tr) =>
      /\ tr.replies = <<"unclear_intent">>
      /\ tr.calls \cap IntentHandlers = {}


\* C26: a vessel identifier of a new query that is all digits once trimmed is
\* looked up with getVesselByIMO and never with getVesselByName, and any other
\* identifier is looked up with getVesselByName and never with getVesselByIMO.
C26_DigitsByIMOOnly ==
  \A tr \in Handled :
    /\ \A s \in tr.byIMO : AllDigits(Trim(s))
    /\ \A s \in tr.byName : ~AllDigits(Trim(s))


-----------------------------------------------------------------------------
(* The vessel lookup by name, for the mappings a process may have loaded *)

\* the mappings loadVesselMappings may find: none, the built-in list, and lists
\* from VESSEL_MAPPINGS_JSON or a mappings file
Directories ==
  { <<>>,
    DEFAULT_VESSELS,
    <<[name |-> <<"A","B"," ","C">>, imo |-> <<"1">>],
       [name |-> <<"A","B">>, imo |-> <<"2">>],
       [name |-> <<"A","B","D">>, imo |-> <<"3">>]>>,
    <<[name |-> <<"A","B">>, imo |-> <<"1">>],
       [name |-> <<"X","A","B","Y">>, imo |-> <<"2">>]>>,
    <<[name |-> <<"A","B","C","D">>, imo |-> <<"1">>],
       [name |-> <<"A","B","C","E">>, imo |-> <<"2">>],
       [name |-> <<"P","q","r","s","t">>, imo |-> <<"3">>]>>,
    <<[name |-> <<"G","C","L">>, imo |-> <<"1">>],
       [name |-> <<"G","C","L"," ","Y","A","M","U","N","A">>, imo |-> <<"2">>]>> }

\* the names asked for
Queries ==
  { <<>>,
    <<" ">>,
    <<"G","C","L">>,
    <<"g","c","l">>,
    <<"G","C","L"," ","Y","A","M","U","N","A">>,
    <<"g","c","l"," ","y","a","m","u","n","a">>,
    <<" ","G","C","L"," ","Y","A","M","U","N","A"," ">>,
    <<"Y","A","M","U","N","A">>,
    <<"G","C","L"," ","Y","A","M","U","N">>,
    <<"G","C","L"," ","T","A","P","I">>,
    <<"T","A","P","I">>,
    <<"A","B">>,
    <<"a","b">>,
    <<" ","a","b"," ">>,
    <<"A","B","D">>,
    <<"B"," ","C">>,
    <<"A","B","Y">>,
    <<"X","A","B","Y">>,
    <<"A","B","C","F">>,
    <<"A","B","C","D">>,
    <<"P","Q","R","X","Y">>,
    <<"P","X","Y","Z","T">>,
    <<"p","q","r","s","t">>,
    <<"P","q","r","s","t">>,
    <<"W","X","Y","Z">>,
    <<"Q","R","S">> }

\* the return statement of getVesselByName that gave the result
ReturnedAt(exact, partial, fuzzy) ==
  IF exact > 0 THEN "exact"
  ELSE IF partial > 0 THEN "partial"
  ELSE IF fuzzy > 0 THEN "fuzzy"
  ELSE "none"

SearchStep(upper, searchName) ==
  ReturnedAt(ExactIndex(upper, searchName), PartialIndex(upper, searchName),
             NearMiss(Distances(searchName, upper, 1)))

LookupStep(vessels, name, searchName) ==
  IF name = <<>> \/ searchName = <<>> THEN "none"
  ELSE SearchStep(UpperNames(vessels, 1), searchName)

\* vesselLookup.getVesselByName(name) is called and returns
LookupCall(name) ==
  /\ last' = [op |-> "lookup", name |-> name,
              result |-> getVesselByName(name),
              step |-> LookupStep(loadVesselMappings, name, ToUpperCase(Trim(name)))]
  /\ UNCHANGED <<now, stateStore, rateLimitStore, reqs, started, hist, vesselCache>>

LookupInit ==
  /\ now = StartTime
  /\ stateStore = EmptyMap
  /\ rateLimitStore = EmptyMap
  /\ reqs = [i \in Slots |-> Idle]
  /\ started = 0
  /\ last = Null
  /\ hist = Null
  /\ vesselCache \in Directories

LookupNext == \E name \in Queries : LookupCall(name)

LookupSpec == LookupInit /\ [][LookupNext]_vars


-----------------------------------------------------------------------------
(* Properties of the vessel lookup *)

\* the name asked for last, without surrounding whitespace and in upper case
Asked == ToUpperCase(Trim(last.name))

\* the name of the i-th entry of the mappings in upper case
NameOf(i) == ToUpperCase(vesselCache[i].name)

\* sub occurs in s
Infix(sub, s) ==
  \E i \in 0..(Len(s) - Len(sub)) : SubSeq(s, i + 1, i + Len(sub)) = sub

First(S) == CHOOSE i \in S : \A j \in S : i <= j

\* the entries that match the name asked for exactly, and those that match it
\* by containment in either direction
ExactSet == { i \in DOMAIN vesselCache : NameOf(i) = Asked }

PartialSet ==
  { i \in DOMAIN vesselCache : Infix(Asked, NameOf(i)) \/ Infix(NameOf(i), Asked) }

LookedUpName == last # Null /\ last.op = "lookup" /\ Asked # <<>>

\* C27: getVesselByName returns the first entry in the order of the mappings
\* that matches exactly if there is one, even when an earlier entry matches by
\* containment; else the first entry that matches by containment in either
\* direction; and goes on to the fuzzy match only when there is neither.
C27_ExactThenPartialThenFuzzy ==
  LookedUpName =>
    IF ExactSet # {}
      THEN last.result = vesselCache[First(ExactSet)] /\ last.step = "exact"
    ELSE IF PartialSet # {}
      THEN last.result = vesselCache[First(PartialSet)] /\ last.step = "partial"
    ELSE /\ last.step \in {"fuzzy", "none"}
         /\ (last.step = "none") = (last.result = Null)

\* an exact match has been returned although an earlier entry matches by
\* containment
C27_Witness ==
  /\ LookedUpName
  /\ ExactSet # {}
  /\ First(PartialSet) < First(ExactSet)
  /\ last.result = vesselCache[First(ExactSet)]


\* the names that are the name asked for last but for letter case and
\* surrounding whitespace give the result it gave
SameForAllSpellings ==
  \A b \in Queries :
    ToUpperCase(Trim(b)) = Asked => getVesselByName(b) = last.result

\* C28, as the code has it: getVesselByName ignores letter case and
\* surrounding whitespace; a name that is, in upper case, the name of exactly
\* one entry returns that entry, and so does a name that is not blank, occurs
\* in the upper-cased name of exactly one entry and has no other entry's name
\* occurring in it.
C28_CaseAndSpaceIgnored ==
  last # Null /\ last.op = "lookup" =>
    /\ SameForAllSpellings
    /\ \A i \in DOMAIN vesselCache :
         /\ Asked = NameOf(i)
         /\ \A j \in DOMAIN vesselCache \ {i} : NameOf(j) # Asked
         => last.result = vesselCache[i]
    /\ \A i \in DOMAIN vesselCache :
         /\ Asked # <<>>
         /\ Infix(Asked, NameOf(i))
         /\ \A j \in DOMAIN vesselCache \ {i} :
              ~Infix(Asked, NameOf(j)) /\ ~Infix(NameOf(j), Asked)
         => last.result = vesselCache[i]

\* the lower-case form of a name that is not all lower case has been asked
\* for and has given the entry of that name
C28_Witness ==
  /\ last # Null /\ last.op = "lookup"
  /\ \E i \in DOMAIN vesselCache :
       /\ last.name = ToLowerCase(vesselCache[i].name)
       /\ last.name # vesselCache[i].name
       /\ last.result = vesselCache[i]

\* C28, as it is stated: a name that is the canonical name of an entry, its
\* lower-case form, or a part of it that occurs in no other entry's name
\* returns that entry.
C28_AnyPartOfOneName ==
  last # Null /\ last.op = "lookup" =>
    /\ SameForAllSpellings
    /\ \A i \in DOMAIN vesselCache :
         \/ last.name = vesselCache[i].name
         \/ last.name = ToLowerCase(vesselCache[i].name)
         \/ /\ Infix(last.name, vesselCache[i].name)
            /\ \A j \in DOMAIN vesselCache \ {i} :
                 ~Infix(last.name, vesselCache[j].name)
         => last.result = vesselCache[i]


\* the edit distance of a and b (insertions, deletions and substitutions of
\* one character, each of cost 1) is at most k
RECURSIVE Within(_, _, _)
Within(a, b, k) ==
  /\ k >= 0
  /\ IF a = <<>> THEN Len(b) <= k
     ELSE IF b = <<>> THEN Len(a) <= k
     ELSE IF Head(a) = Head(b) THEN Within(Tail(a), Tail(b), k)
     ELSE \/ Within(Tail(a), b, k - 1)
          \/ Within(a, Tail(b), k - 1)
          \/ Within(Tail(a), Tail(b), k - 1)

\* the entries within distance 2 of the name asked for, and those of them
\* that no entry is closer than
Candidates == { i \in DOMAIN vesselCache : Within(Asked, NameOf(i), 2) }

Closest ==
  { i \in Candidates :
      \A j \in DOMAIN vesselCache, k \in 0..2 :
        Within(Asked, NameOf(j), k) => Within(Asked, NameOf(i), k) }

\* C29: when no entry matches the name exactly or by containment,
\* getVesselByName returns the entry of the least edit distance to it if that
\* distance is at most 2, the first such entry in the order of the mappings,
\* and null if every entry is farther away or there is no entry.
C29_NearestWithinTwo ==
  /\ LookedUpName /\ ExactSet = {} /\ PartialSet = {} =>
       IF Candidates = {}
         THEN last.result = Null /\ last.step = "none"
         ELSE last.result = vesselCache[First(Closest)] /\ last.step = "fuzzy"
  /\ last # Null /\ last.op = "lookup" /\ vesselCache = <<>> => last.result = Null

\* the fuzzy match has returned the first of two entries at the same distance
C29_Witness ==
  /\ LookedUpName /\ ExactSet = {} /\ PartialSet = {}
  /\ Cardinality(Closest) > 1
  /\ last.step = "fuzzy"
  /\ last.result = vesselCache[First(Closest)]


GclYamun == <<"G","C","L"," ","Y","A","M","U","N">>

GclYamuna == <<"G","C","L"," ","Y","A","M","U","N","A">>

\* getVesselByName("GCL YAMUN") has returned, and GCL YAMUNA is the first
\* entry of the mappings that contains the name or is contained in it
AskedGclYamun ==
  /\ last # Null /\ last.op = "lookup" /\ last.name = GclYamun
  /\ PartialSet # {}
  /\ vesselCache[First(PartialSet)].name = GclYamuna

-----------------------------------------------------------------------------
(* The vessel lookup over the mappings loadVesselMappings reads *)

\* JavaScript values of the mapping sources and of the arguments of a lookup
Str(chars) == [kind |-> "string", chars |-> chars]

Num(n) == [kind |-> "number", num |-> n]

Undefined == [kind |-> "undefined"]

NullValue == [kind |-> "null"]

ObjectValue == [kind |-> "object"]

DigitChars == <<"0","1","2","3","4","5","6","7","8","9">>

\* the decimal digits of a natural number
RECURSIVE Decimal(_)
Decimal(n) ==
  IF n < 10 THEN <<DigitChars[n + 1]>>
  ELSE Decimal(n \div 10) \o <<DigitChars[(n % 10) + 1]>>

\* String(v)
String(v) ==
  CASE v.kind = "string" -> v.chars
    [] v.kind = "number" -> Decimal(v.num)
    [] v.kind = "undefined" -> <<"u","n","d","e","f","i","n","e","d">>
    [] v.kind = "null" -> <<"n","u","l","l">>
    [] OTHER -> <<"[","o","b","j","e","c","t"," ","O","b","j","e","c","t","]">>

\* the truthiness of a value: if (v), !v
Truthy(v) ==
  CASE v.kind = "string" -> v.chars # <<>>
    [] v.kind = "number" -> v.num # 0
    [] v.kind = "object" -> TRUE
    [] OTHER -> FALSE

\* parsed.filter(v => v && v.name && v.imo).map(v => ({ name:
\* String(v.name).trim(), imo: String(v.imo).trim() })), from the i-th row on;
\* a row is null or an object whose name and imo are values
RECURSIVE FromJson(_, _)
FromJson(parsed, i) ==
  IF i > Len(parsed) THEN <<>>
  ELSE LET v == parsed[i]
       IN (IF v # Null /\ Truthy(v.name) /\ Truthy(v.imo)
             THEN <<[name |-> Trim(String(v.name)), imo |-> Trim(String(v.imo))]>>
             ELSE <<>>)
          \o FromJson(parsed, i + 1)

\* line.split(','), with acc the part being read
RECURSIVE Split(_, _)
Split(line, acc) ==
  IF line = <<>> THEN <<acc>>
  ELSE IF Head(line) = "," THEN <<acc>> \o Split(Tail(line), <<>>)
  ELSE Split(Tail(line), Append(acc, Head(line)))

\* part.replace(/^"|"$/g, '')
Unquote(part) ==
  LET open == IF part # <<>> /\ Head(part) = "\"" THEN Tail(part) ELSE part
  IN IF open # <<>> /\ open[Len(open)] = "\""
       THEN SubSeq(open, 1, Len(open) - 1)
       ELSE open

\* the parts of one line of the CSV file
RECURSIVE Parts(_, _)
Parts(split, i) ==
  IF i > Len(split) THEN <<>>
  ELSE <<Unquote(Trim(split[i]))>> \o Parts(split, i + 1)

\* csvContent.split('\n').filter(line => line.trim() !== ''), from the i-th
\* line on
RECURSIVE NonBlank(_, _)
NonBlank(lines, i) ==
  IF i > Len(lines) THEN <<>>
  ELSE (IF Trim(lines[i]) # <<>> THEN <<lines[i]>> ELSE <<>>)
       \o NonBlank(lines, i + 1)

\* the loop over the lines of the CSV file from the i-th on (the first line is
\* the header)
RECURSIVE FromCsv(_, _)
FromCsv(lines, i) ==
  IF i > Len(lines) THEN <<>>
  ELSE LET parts == Parts(Split(Trim(lines[i]), <<>>), 1)
           name == Trim(parts[1])
           imo == Trim(parts[2])
       IN (IF Len(parts) >= 2 /\ name # <<>> /\ imo # <<>>
             THEN <<[name |-> name, imo |-> imo]>>
             ELSE <<>>)
          \o FromCsv(lines, i + 1)

\* A source of mappings: absent, not holding an array (the text does not
\* parse, or parses to something else), or holding rows
Absent == [kind |-> "absent"]

Invalid == [kind |-> "invalid"]

Rows(rows) == [kind |-> "rows", rows |-> rows]

\* loadVesselMappings() when nothing is cached yet: env is VESSEL_MAPPINGS_JSON,
\* json is data/vessel-mappings.json and csv is the lines of
\* data/vessel-mappings.csv
LoadFrom(src) ==
  IF src.env.kind = "rows" THEN FromJson(src.env.rows, 1)
  ELSE IF src.json.kind = "rows" THEN FromJson(src.json.rows, 1)
  ELSE IF src.csv.kind = "absent" THEN DEFAULT_VESSELS
  ELSE FromCsv(NonBlank(src.csv.rows, 1), 2)

\* the outcome of a call: the value returned, or a TypeError thrown
Value(x) == [threw |-> FALSE, result |-> x]

TypeError == [threw |-> TRUE, result |-> Null]

NameLookupUnguarded(v) ==
  IF v.kind # "string" THEN TypeError ELSE Value(getVesselByName(v.chars))

\* getVesselByName(name) for any value: if (!name || typeof name !== 'string')
\* return null, before name.trim()
NameLookup(v) ==
  IF ~Truthy(v) \/ v.kind # "string" THEN Value(Null)
  ELSE Value(getVesselByName(v.chars))

\* getVesselByIMO(imo) for any value: if (!imo) return null, then String(imo)
IMOLookup(v) ==
  IF ~Truthy(v) THEN Value(Null) ELSE Value(getVesselByIMO(String(v)))

Row(name, imo) == [name |-> name, imo |-> imo]

\* rows of a JSON source: well-formed ones, a null, and rows whose name or imo
\* is missing, empty, blank, padded or a number
JsonRows ==
  { <<Row(Str(<<"G","C","L"," ","Y","A","M","U","N","A">>), Num(9481219)),
      Null,
      Row(Str(<<" ","A","B"," ">>), Str(<<" ","1","2"," ">>)),
      Row(Undefined, Str(<<"5">>)),
      Row(Str(<<>>), Str(<<"6">>)),
      Row(Str(<<"C","D">>), NullValue),
      Row(Str(<<"E","F">>), Num(0))>>,
    <<Row(Str(<<"A","B">>), Str(<<"1","2">>)),
      Row(Str(<<" "," ">>), Str(<<"7">>)),
      Row(Str(<<"A","B","C">>), Str(<<"1","2","3">>))>>,
    <<Row(Str(<<"A","B">>), Str(<<" ">>)),
      Row(Str(<<"X","Y">>), Str(<<"0">>)),
      Row(Num(12), Str(<<"1","2">>)),
      Row(Str(<<"1","2">>), Str(<<"1","2">>))>>,
    <<>> }

\* the lines of a CSV file: a header, then rows that are well-formed, quoted,
\* blank, or lack a name or an identifier
CsvFiles ==
  { << <<"n","a","m","e",",","i","m","o">>,
       <<"A","B",",","1","2">>,
       <<" ">>,
       <<"\"","C"," ","D","\"",","," ","\"","3","4","\"">>,
       <<" ",",","5">>,
       <<"E",",">>,
       <<"F">>,
       <<"\""," ","\"",",","7">>,
       <<"G",",","\"","\"">>,
       <<"a","b","d",",","1","2","3",",","x">> >>,
     << <<"n","a","m","e",",","i","m","o">> >>,
     <<>> }

\* what a process may find when it loads the mappings
MappingSources ==
  { [env |-> e, json |-> Absent, csv |-> Absent] :
      e \in {Absent, Invalid} \cup { Rows(r) : r \in JsonRows } }
  \cup
  { [env |-> e, json |-> Rows(r), csv |-> Absent] :
      e \in {Absent, Invalid}, r \in JsonRows }
  \cup
  { [env |-> Absent, json |-> j, csv |-> Rows(c)] :
      j \in {Absent, Invalid}, c \in CsvFiles }

\* the names and the identifiers asked for
NameArguments ==
  { NullValue, Undefined, Num(0), Num(12), ObjectValue,
    Str(<<>>), Str(<<" "," ">>),
    Str(<<"N","O","N","E","X","I","S","T","E","N","T"," ","V","E","S","S","E","L">>),
    Str(<<"g","c","l"," ","y","a","m","u","n","a">>),
    Str(<<"A","B">>), Str(<<"a","b","c">>), Str(<<"C"," ","D">>),
    Str(<<"X","Y","Z">>), Str(<<"1","2">>), Str(<<"Q">>) }

IMOArguments ==
  { NullValue, Undefined, Num(0), Num(12), Num(9481219), Num(9999999), ObjectValue,
    Str(<<>>), Str(<<" ">>), Str(<<"0">>),
    Str(<<"9","4","8","1","2","1","9">>), Str(<<" ","9","4","8","1","2","1","9"," ">>),
    Str(<<"9","4","8","1","2","1">>), Str(<<"9","4","8","1","2","1","8">>),
    Str(<<"9","9","9","9","9","9","9">>),
    Str(<<"1","2">>), Str(<<"1">>), Str(<<"1","2","3">>), Str(<<" ","3","4">>),
    Str(<<"G","C","L"," ","Y","A","M","U","N","A">>) }

\* vesselLookup.getVesselByName(name) is called and returns or throws
NameCall(v) ==
  /\ last' = [op |-> "byName", arg |-> v,
              name |-> IF v.kind = "string" THEN v.chars ELSE <<>>]
             @@ NameLookup(v)
  /\ UNCHANGED <<now, stateStore, rateLimitStore, reqs, started, hist, vesselCache>>

\* vesselLookup.getVesselByIMO(imo) is called and returns
IMOCall(v) ==
  /\ last' = [op |-> "byIMO", arg |-> v] @@ IMOLookup(v)
  /\ UNCHANGED <<now, stateStore, rateLimitStore, reqs, started, hist, vesselCache>>

\* The mappings are read at the first lookup of a process and cached from then
\* on; hist keeps the sources they were read from.
DirectoryInit ==
  /\ now = StartTime
  /\ stateStore = EmptyMap
  /\ rateLimitStore = EmptyMap
  /\ reqs = [i \in Slots |-> Idle]
  /\ started = 0
  /\ last = Null
  /\ hist \in MappingSources
  /\ vesselCache = LoadFrom(hist)

DirectoryNext ==
  \/ \E v \in NameArguments : NameCall(v)
  \/ \E v \in IMOArguments : IMOCall(v)

DirectorySpec == DirectoryInit /\ [][DirectoryNext]_vars


-----------------------------------------------------------------------------
(* Properties of the vessel lookup over the loaded mappings *)

\* C31: a lookup by name or by identifier never returns a record whose name or
\* identifier is empty, whatever source the mappings were loaded from.
C31_NoEmptyNameOrIdentifier ==
  last # Null /\ last.op \in {"byName", "byIMO"} /\ last.result # Null =>
    last.result.name # <<>> /\ last.result.imo # <<>>


\* the argument of the last lookup is a string that is empty or blank
BlankArgument == last.arg.kind = "string" /\ Trim(last.arg.chars) = <<>>

\* the string the last lookup by identifier compares with the identifiers
AskedIMO == Trim(String(last.arg))

\* the entries whose identifier is the one asked for
SameIMO == { i \in DOMAIN vesselCache : vesselCache[i].imo = AskedIMO }

\* no entry matches the name asked for: not exactly, not by containment, and
\* none is within two edits of it
NoNameMatches == ExactSet = {} /\ PartialSet = {} /\ Candidates = {}

C33_ExactIdentifierOnly ==
  last # Null /\ last.op = "byIMO" =>
    IF ~Truthy(last.arg) \/ AskedIMO = <<>> \/ SameIMO = {}
      THEN last.result = Null
      ELSE last.result = vesselCache[First(SameIMO)]

\* a number has been looked up and the entry with its digits returned, and
\* another entry's identifier starts with the same digits
C33_Witness ==
  /\ last # Null /\ last.op = "byIMO"
  /\ last.arg.kind = "number"
  /\ last.result # Null /\ last.result.imo = Decimal(last.arg.num)
  /\ \E i \in DOMAIN vesselCache :
       /\ vesselCache[i].imo # AskedIMO
       /\ Infix(AskedIMO, vesselCache[i].imo)

\* C33 as stated, for every value: the first entry whose identifier equals the
\* trimmed string of the value, and null if there is none.
C33_EveryValueConverted ==
  last # Null /\ last.op = "byIMO" =>
    IF SameIMO = {} THEN last.result = Null
    ELSE last.result = vesselCache[First(SameIMO)]


-----------------------------------------------------------------------------
(* The choice of a sender who has a pending state *)

\* the sender with a pending state, and the state a recommendations query has
\* saved for them at time t
ActiveSender == <<"+","1","5">>

PendingState(t) ==
  saveState(EmptyMap, ActiveSender,
            [intent |-> "recommendations",
             vesselName |-> <<"G","C","L"," ","T","A","P","I">>,
             vesselIMO |-> <<"9","4","8","1","6","5","9">>,
             vesselData |-> [imo |-> <<"9","4","8","1","6","5","9">>],
             recommendationsData |-> [imo |-> <<"9","4","8","1","6","5","9">>],
             timestamp |-> t], t).store

\* the texts of the follow-up message: up to three pieces in a row
TextPieces ==
  { <<>>, <<"1">>, <<"2">>, <<" ">>, <<"x">>,
    <<"d","o","w","n","l","o","a","d">>, <<"D","o","w","n","L","O","A","D">>,
    <<"e","m","a","i","l">>, <<"E","M","a","i","l">>, <<"m","a","i","l">> }

FollowUpTexts == { a \o b \o c : a \in TextPieces, b \in TextPieces, c \in TextPieces }

\* a message with the text arrives from the sender with the pending state:
\* exports.handler runs to its first await; hist keeps the text
Select(text) ==
  /\ started = 0
  /\ Enter(handlerEntry(stateStore, rateLimitStore,
                        [configured |-> TRUE, defaultEmail |-> TRUE],
                        ActiveSender, text, "POST", now))
  /\ started' = 1
  /\ hist' = [text |-> text]
  /\ UNCHANGED <<now, vesselCache>>

SelectionInit ==
  /\ now = StartTime
  /\ stateStore = PendingState(StartTime)
  /\ rateLimitStore = EmptyMap
  /\ reqs = [i \in Slots |-> Idle]
  /\ started = 0
  /\ last = Null
  /\ hist = Null
  /\ vesselCache = DEFAULT_VESSELS

SelectionNext == \E text \in FollowUpTexts : Select(text)

SelectionSpec == SelectionInit /\ [][SelectionNext]_vars


-----------------------------------------------------------------------------
(* Properties of the choice *)

\* the text of the message, trimmed and in lower case
Normalized == Trim(ToLowerCase(hist.text))

Download == <<"d","o","w","n","l","o","a","d">>

Email == <<"e","m","a","i","l">>

\* C34: a non-blank message of a sender whose state is pending and not expired
\* goes to handleExcelRequest if its text, trimmed and in lower case, is "1" or
\* contains "download"; else to handleEmailRequest if it is "2" or contains
\* "email"; else the state is cleared and the text is processed as a new
\* query. So a text with both words is a download, and a text that has 1 or 2
\* among other characters is a new query.
C34_ChoiceByTokenOrWord ==
  hist # Null /\ Normalized # <<>> =>
    \A tr \in Handled :
      tr.route = IF Normalized = <<"1">> \/ Infix(Download, Normalized)
                   THEN "download"
                 ELSE IF Normalized = <<"2">> \/ Infix(Email, Normalized)
                   THEN "email"
                 ELSE "invalid_followup"

\* a text with both words has gone to handleExcelRequest
C34_Witness ==
  /\ hist # Null
  /\ Infix(Download, Normalized) /\ Infix(Email, Normalized)
  /\ \E tr \in Handled : tr.route = "download" /\ "handleExcelRequest" \in tr.calls

\* a text with the digit 1 or 2 among other characters has been processed as a
\* new query
DigitAmongOthers ==
  /\ hist # Null
  /\ \E i \in 1..Len(Normalized) : Normalized[i] \in {"1", "2"}
  /\ \E tr \in Handled : tr.route = "invalid_followup" /\ tr.afterEntry = Null


-----------------------------------------------------------------------------
(* The messages of one sender whose state is pending *)

SessionNext ==
  \/ \E text \in { <<"1">>, <<"2">>, <<"b","a","n","a","n","a">> },
        e \in {c \in EnvChoices : c.configured} :
       Receive(ActiveSender, text, "POST", e)
  \/ \E i \in Slots : CompleteNewQuery(i)
  \/ \E i \in Slots : CompleteExcel(i)
  \/ \E i \in Slots : CompleteEmail(i)
  \/ Cleanup
  \/ Tick

SessionSpec == SelectionInit /\ [][SessionNext]_vars


-----------------------------------------------------------------------------
(* Properties of the messages of one sender *)

\* handleEmailRequest has answered that the report could not be sent
EmailNotDelivered(tr) ==
  /\ tr.route = "email"
  /\ tr.replies # <<>>
  /\ tr.replies[Len(tr.replies)] \in {"no_email", "email_failed"}

\* the step in which handleEmailRequest returns that answer
EmailFailureReturns ==
  /\ last' # last
  /\ EmailNotDelivered(last')

-----------------------------------------------------------------------------
(* New questions of two senders, one of whom has a pending state *)

\* another sender
OtherSender == <<"2","7">>

QuestionsNext ==
  \/ \E from \in {ActiveSender, OtherSender} :
       Receive(from, <<"b","a","n","a","n","a">>, "POST",
               [configured |-> TRUE, defaultEmail |-> TRUE])
  \/ \E i \in Slots : CompleteNewQuery(i)
  \/ Tick

QuestionsSpec == SelectionInit /\ [][QuestionsNext]_vars

\* the last reply of a message that has returned
LastReply(tr) == IF tr.replies = <<>> THEN "none" ELSE tr.replies[Len(tr.replies)]

\* the invocation in slot i starts in this step and goes on to processNewQuery
EntersNewQuery(i) == reqs[i].pc = "idle" /\ reqs'[i].pc = "intent"

\* a message that was processed as a new query returns in this step with a
\* reply other than the follow-up prompt
ReturnsWithoutPrompt ==
  /\ last' # last
  /\ "processNewQuery" \in last'.calls
  /\ LastReply(last') # "followup_prompt"

\* the stored states of the numbers other than the sender's are the same
\* before and after the step
OthersUnchanged(from) ==
  \A k \in (DOMAIN stateStore \cup DOMAIN stateStore') \ {normalizePhoneNumber(from)} :
    Entry(stateStore', k) = Entry(stateStore, k)

\* C36: a message that is processed as a new query and is answered with
\* anything but the follow-up prompt stores no state. When it starts, no state
\* is left stored for its sender and the states of the other numbers are
\* untouched; when it returns, the store is exactly as it was before the
\* return.
C36_NoPromptNoSession ==
  [][/\ \A i \in Slots :
          EntersNewQuery(i) =>
            /\ Entry(stateStore', normalizePhoneNumber(reqs'[i].tr.from)) = Null
            /\ OthersUnchanged(reqs'[i].tr.from)
     /\ ReturnsWithoutPrompt => stateStore' = stateStore]_vars

\* the other sender's question has been answered without a prompt while the
\* first sender's state is stored, and no state is stored for the other sender
C36_Witness ==
  /\ last # Null /\ last.from = OtherSender
  /\ "processNewQuery" \in last.calls
  /\ LastReply(last) \in {"vessel_not_found", "unclear_intent"}
  /\ Entry(stateStore, normalizePhoneNumber(ActiveSender)) # Null
  /\ Entry(stateStore, normalizePhoneNumber(OtherSender)) = Null

\* C36 as stated: once a message that was processed as a new query has been
\* answered with anything but the follow-up prompt, no state is stored for its
\* sender.
C36_NoSessionAfterwards ==
  last # Null /\ "processNewQuery" \in last.calls
  /\ LastReply(last) # "followup_prompt"
  => last.post = Null


\* the numbers for which getState, called when the last sweep ran and on the
\* store it found, would have returned a state
Gettable == { k \in DOMAIN last.pre : getState(last.pre, k, last.at).result # Null }

\* C37: the sweep removes exactly the entries for which getState at the same
\* moment would have returned null, which are those whose expiresAt lies
\* strictly before that moment; it keeps every other entry unchanged, an entry
\* that expires at that very moment included, and returns the number of
\* entries it has removed.
C37_SweepAgreesWithGet ==
  last # Null /\ last.op = "sweep" =>
    /\ DOMAIN last.post = Gettable
    /\ \A k \in Gettable :
         /\ last.post[k] = last.pre[k]
         /\ getState(last.pre, k, last.at).result = last.pre[k]
    /\ \A k \in DOMAIN last.pre :
         k \in Gettable <=> ~(last.at > last.pre[k].expiresAt)
    /\ last.result = Cardinality(DOMAIN last.pre \ Gettable)

\* a sweep has removed an entry and has kept one whose expiresAt is the moment
\* of the sweep
C37_Witness ==
  /\ last # Null /\ last.op = "sweep"
  /\ last.result > 0
  /\ \E k \in DOMAIN last.post : last.post[k].expiresAt = last.at


\* the invocation with trace tr was given a stored state by handleExcelRequest
\* or handleEmailRequest
Dispatched(tr) ==
  /\ tr.route \in {"download", "email"}
  /\ tr.calls \cap FollowUpHandlers # {}
  /\ tr.payload # Null

\* C38: a stored state is consumed at most once: of two choices ("1" or "2")
\* of one sender that are handled at the same time, at most one is given the
\* stored state by handleExcelRequest or handleEmailRequest; the other finds
\* no state.
C38_ConsumedAtMostOnce ==
  \A i, j \in Slots :
    /\ i # j
    /\ reqs[i].pc # "idle" /\ reqs[j].pc # "idle"
    /\ reqs[i].tr.from = reqs[j].tr.from
    /\ Dispatched(reqs[i].tr)
    => ~(Dispatched(reqs[j].tr) /\ reqs[j].tr.payload = reqs[i].tr.payload)


\* a choice of the sender returns from handleExcelRequest or handleEmailRequest
\* in this step
FollowUpReturns ==
  /\ last' # last
  /\ last'.route \in {"download", "email"}

\* the state stored for the sender of that choice before the step, if it is
\* not the state the choice found when it arrived: a later message saved it
SavedSince ==
  LET cur == Entry(stateStore, normalizePhoneNumber(last'.from))
  IN IF cur # last'.pre THEN cur ELSE Null

\* C39: a state that a new query has saved is not removed by a message that
\* started earlier: when handleExcelRequest or handleEmailRequest returns for a
\* choice that arrived before the query saved its state, the clearState it
\* performs leaves that state stored.
C39_LaterSessionSurvives ==
  [][FollowUpReturns /\ SavedSince # Null =>
       Entry(stateStore', normalizePhoneNumber(last'.from)) = SavedSince]_vars

=============================================================================
